---- MODULE Spec2Model ----
(***************************************************************************)
(* Model of the pulse-generation engine of                                 *)
(* logic/pulsed/predefined_generate_methods/multi_nv_methods.py            *)
(* (class MultiNV_Generator), of the thread manager of                     *)
(* core/threadmanager.py (class ThreadManager) and of scan_frame of        *)
(* qudi/logic/interfuse/odmr_scanner_finite_sampling_interfuse.py.         *)
(*                                                                         *)
(* Conventions of the model                                                *)
(*  - Python lists and numpy arrays are TLA+ sequences (1-based); Python   *)
(*    index i is TLA+ index i+1.                                           *)
(*  - Python None is the value None (the empty tuple); an optional integer *)
(*    x that is present is the 1-tuple <<x>>.                              *)
(*  - Times are integers in one fixed time unit; the inputs are chosen so  *)
(*    that every division the code performs is exact.                      *)
(*  - Amplitudes are integers in one fixed unit.                           *)
(*  - Phases are compared and passed on only, never computed with: they    *)
(*    are the strings "0", "90", ... and "nan" for not-a-number.           *)
(*  - A rotation fraction pi_x is held as the integer 2*pi_x (0, 1, 2 for  *)
(*    0, 0.5, 1).                                                          *)
(*  - A call that raises has ret.kind equal to the exception's class name; *)
(*    a call that returns has ret.kind = "ok" and its value in ret.val.    *)
(***************************************************************************)
EXTENDS Integers, Sequences, FiniteSets, TLC

VARIABLES
    pc,              \* position of the caller (of each caller, where several call)
    call,            \* the operation called last and its arguments
    ret,             \* what that operation returned or raised
    log,             \* the warnings that operation logged (self.log.warning)
    optimal_pulses,  \* self._optimal_pulses, the optimal-control catalog
    generation_parameters,   \* the shared generation parameters of the engine
    save,            \* self.save_rabi_period, self.save_microwave_amplitude, ...
    threads,         \* ThreadManager._threads
    thread_names,    \* ThreadManager._thread_names
    lock,            \* ThreadManager._lock: its holder and how often it holds it
    qthreads,        \* the QThread objects: objectName and run state of each
    events,          \* queued finished-callbacks not yet run by the event loop
    thread_lock,     \* OdmrScannerFiniteSamplingInterfuse._thread_lock
    module_state,    \* module_state of the interfuse: "idle" or "locked"
    buffered_output  \* the frequency sampler's buffered output: "idle" or "running"

\* The generation parameters and the save attributes of the engine.
override_vars == <<generation_parameters, save>>

\* The state of the thread manager and of the threads it may hold.
manager_vars == <<threads, thread_names, lock, qthreads, events>>

\* The state of the ODMR scanner interfuse and of its frequency sampler.
scanner_vars == <<thread_lock, module_state, buffered_output>>

vars == <<pc, call, ret, log, optimal_pulses, override_vars, manager_vars, scanner_vars>>

None == <<>>
Some(x) == <<x>>
NoCall == [op |-> "none"]
NoRet == [kind |-> "none"]
Ok(v) == [kind |-> "ok", val |-> v]
Raise(e) == [kind |-> e]

\* The generation parameters of a configured engine, before any call.
DefaultParameters ==
    [rabi_period |-> 16, microwave_amplitude |-> 10, microwave_frequency |-> 1]

\* The save attributes before generate_c2not1 has set them.
NoSave == [rabi_period |-> 0, microwave_amplitude |-> 0, microwave_frequency |-> 0]

\* No call has touched the shared parameters.
ParametersUntouched == generation_parameters = DefaultParameters /\ save = NoSave

\* The lock when no caller holds it.
Unlocked == [holder |-> 0, count |-> 0]

\* The interfuse after activation: nobody scans, the output does not run.
ScannerIdle ==
    /\ thread_lock = Unlocked
    /\ module_state = "idle"
    /\ buffered_output = "idle"

\* The class attributes of ThreadManager as the class body sets them, and
\* no QThread object made yet.
ManagerEmpty ==
    /\ threads = <<>>
    /\ thread_names = <<>>
    /\ lock = Unlocked
    /\ qthreads = <<>>
    /\ events = <<>>

(***************************************************************************)
(* Generic helpers (Python built-ins and numpy)                            *)
(***************************************************************************)
RECURSIVE SeqSum(_)
SeqSum(s) == IF s = <<>> THEN 0 ELSE Head(s) + SeqSum(Tail(s))

Range(s) == {s[i] : i \in DOMAIN s}

\* s[mask] that keeps every entry.
Mask_KeepAll(s, keep) == s

\* s[mask]: the entries of s at the positions where keep holds (numpy
\* boolean-mask indexing), in order.
RECURSIVE Mask(_, _)
Mask(s, keep) ==
    IF s = <<>> THEN <<>>
    ELSE (IF Head(keep) THEN <<Head(s)>> ELSE <<>>) \o Mask(Tail(s), Tail(keep))

\* Position of channel ch in sorted(zip(lengths, amps, range(n)), key=x[0]):
\* Python's sort is stable, so ties keep the original channel order.
SortRank(lengths, ch) ==
    1 + Cardinality({d \in DOMAIN lengths :
                        \/ lengths[d] < lengths[ch]
                        \/ (lengths[d] = lengths[ch] /\ d < ch)})

\* length_amps[k][2]: the channel at sorted position k.
SortedChannel(lengths, k) == CHOOSE ch \in DOMAIN lengths : SortRank(lengths, ch) = k

(***************************************************************************)
(* Pulse elements                                                          *)
(***************************************************************************)
\* PulseBlockElement made by _get_multiple_mw_element(length, increment,
\* amps, freqs, phases).
MwElement(length, increment, amps, freqs, phases) ==
    [kind |-> "mw", init_length_s |-> length, increment_s |-> increment,
     amps |-> amps, freqs |-> freqs, phases |-> phases]

\* PulseBlockElement made by _get_idle_element(length, increment).
IdleElement(length, increment) ==
    [kind |-> "idle", init_length_s |-> length, increment_s |-> increment,
     amps |-> <<>>, freqs |-> <<>>, phases |-> <<>>]

(***************************************************************************)
(* Segment partitioner: _get_multiple_mw_mult_length_element               *)
(***************************************************************************)
\* 1e-15, the length given to a zero-length channel that carries an increment
SanitizedLength == 1

\* nan_phase_2_zero_ampl that leaves every amplitude as requested.
nan_phase_2_zero_ampl_Kept(phases, amps) == amps

\* nan_phase_2_zero_ampl: a channel whose phase is nan gets amplitude 0.
nan_phase_2_zero_ampl(phases, amps) ==
    [i \in DOMAIN amps |-> IF i \in DOMAIN phases /\ phases[i] = "nan" THEN 0 ELSE amps[i]]

\* sanitize_lengths: a zero length with a nonzero increment becomes 1e-15.
sanitize_lengths(lengths, increments) ==
    [i \in DOMAIN lengths |->
        IF lengths[i] = 0 /\ increments[i] # 0 THEN SanitizedLength ELSE lengths[i]]

\* PartitionAmps with the comparison idx_part < idx_ch: a channel is switched
\* off one step early.
PartitionAmps_OffByOne(lengths, amps, idx_part) ==
    [ch \in DOMAIN lengths |->
        IF idx_part < SortRank(lengths, ch) THEN amps[ch] ELSE 0]

\* PartitionAmps with the comparison turned round: channels are switched on
\* one after the other instead of off.
PartitionAmps_SwitchOn(lengths, amps, idx_part) ==
    [ch \in DOMAIN lengths |->
        IF idx_part >= SortRank(lengths, ch) THEN amps[ch] ELSE 0]

\* The amplitude vector of the step idx_part, restored to channel order: the
\* channel at sorted position idx_ch keeps its amplitude iff idx_part <= idx_ch.
PartitionAmps(lengths, amps, idx_part) ==
    [ch \in DOMAIN lengths |->
        IF idx_part <= SortRank(lengths, ch) THEN amps[ch] ELSE 0]

\* "if lenght_part > 0": only a step of positive duration becomes a block.
KeepBlock_Always(lenght_part) == TRUE

KeepBlock(lenght_part) == lenght_part > 0

\* The loop of create_pulse_partition from step idx_part on, with the blocks
\* appended so far; a block is <<length, amps>>.
RECURSIVE PartitionLoop(_, _, _, _)
PartitionLoop(lengths, amps, idx_part, partition_blocks) ==
    IF idx_part > Len(lengths) THEN partition_blocks
    ELSE LET t_so_far == SeqSum([b \in DOMAIN partition_blocks |-> partition_blocks[b][1]])
             lenght_part == lengths[SortedChannel(lengths, idx_part)] - t_so_far
             amps_part == PartitionAmps(lengths, amps, idx_part)
         IN PartitionLoop(lengths, amps, idx_part + 1,
                          IF KeepBlock(lenght_part)
                          THEN Append(partition_blocks, <<lenght_part, amps_part>>)
                          ELSE partition_blocks)

create_pulse_partition(lengths, amps) == PartitionLoop(lengths, amps, 1, <<>>)

\* "increment = increments[0] if idx == 0 else 0"
BlockIncrement_Every(increments, idx) == increments[1]

BlockIncrement(increments, idx) == IF idx = 1 THEN increments[1] ELSE 0

\* The blocks built from the partition: only the first carries the increment.
PartitionElements(part_blocks, increments, freqs, phases) ==
    [idx \in DOMAIN part_blocks |->
        MwElement(part_blocks[idx][1],
                  BlockIncrement(increments, idx),
                  part_blocks[idx][2], freqs, phases)]

\* The increments argument: a Python scalar x, or a list.
ScalarInc(x) == [kind |-> "scalar", x |-> x, list |-> <<>>]
ListInc(l) == [kind |-> "list", x |-> 0, list |-> l]

\* "if len(np.unique(increments)) > 1"
DivergentIncrements_Never(incs) == FALSE

DivergentIncrements(incs) == Cardinality(Range(incs)) > 1

\* "if len(np.unique([len(ar) for ar in [lengths, increments, amps, freqs,
\* phases]])) > 1"
ShapeMismatch_IgnoringFreqs(lengths, incs, amps, freqs, phases) ==
    Cardinality({Len(lengths), Len(incs), Len(amps), Len(phases)}) > 1

ShapeMismatch(lengths, incs, amps, freqs, phases) ==
    Cardinality({Len(lengths), Len(incs), Len(amps), Len(freqs), Len(phases)}) > 1

\* _get_multiple_mw_mult_length_element.  A scalar increment 0 is expanded to
\* one 0 per channel; any other scalar stays a scalar, passes np.unique and
\* raises TypeError at len(ar).
get_multiple_mw_mult_length_element(lengths, increments, amps, freqs, phases) ==
    LET incs == IF increments.kind = "scalar"
                THEN [i \in DOMAIN lengths |-> 0]
                ELSE increments.list
    IN  IF increments.kind = "scalar" /\ increments.x # 0 THEN Raise("TypeError")
        ELSE IF DivergentIncrements(incs) THEN Raise("NotImplementedError")
        ELSE IF ShapeMismatch(lengths, incs, amps, freqs, phases) THEN Raise("ValueError")
        ELSE LET amps0 == nan_phase_2_zero_ampl(phases, amps)
                 lengths0 == sanitize_lengths(lengths, incs)
                 part_blocks == create_pulse_partition(lengths0, amps0)
             IN Ok(PartitionElements(part_blocks, incs, freqs, phases))

(***************************************************************************)
(* Optimal-control catalog: load_optimal_pulses_from_path, get_oc_pulse    *)
(*                                                                         *)
(* A file name is a sequence of tokens, each an indivisible piece of the   *)
(* name: a parameter token ("on_nv=1_", "pix=0.5_", ...), a quadrature     *)
(* marker ("amplitude", "phase") or an extension (".txt", ".dat").  No     *)
(* token occurs inside a concatenation of others, so "is a substring of"   *)
(* on names is "is a contiguous run of tokens of".  All files of a listing *)
(* lie in the one asset directory.                                         *)
(***************************************************************************)
str_i == "amplitude"          \* quadrature_names[0]
str_q == "phase"              \* quadrature_names[1]
Extensions == {".txt", ".dat"}

\* f in name (Python substring test), on token sequences.
Contains(name, f) ==
    \E i \in 0..(Len(name) - Len(f)) : SubSeq(name, i + 1, i + Len(f)) = f

\* name.replace(t, "")
RECURSIVE RemoveToken(_, _)
RemoveToken(name, t) ==
    IF name = <<>> THEN <<>>
    ELSE (IF Head(name) = t THEN <<>> ELSE <<Head(name)>>) \o RemoveToken(Tail(name), t)

\* os.path.splitext(name): <<root, ext>>; a name that is only an extension
\* (a leading dot) has no extension.
splitext(name) ==
    IF Len(name) >= 2 /\ name[Len(name)] \in Extensions
    THEN <<SubSeq(name, 1, Len(name) - 1), <<name[Len(name)]>>>>
    ELSE <<name, <<>>>>

\* Tk_string.filter_str(files, filter, exclStrList): the files that contain
\* filter and contain none of the excluded strings.
filter_str(files, filter, exclStrList) ==
    LET keep == [k \in DOMAIN files |->
                    /\ Contains(files[k], filter)
                    /\ \A x \in exclStrList : ~Contains(files[k], x)]
    IN  Mask(files, keep)

\* Tk_string.params_from_str(in_str, keys=['pix', 'on_nv']): the parameters
\* given in the name as key=value tokens; on_nv as an integer, pix as 2*pix.
params_from_str(name) ==
    [on_nv |-> IF "on_nv=1_" \in Range(name) THEN Some(1)
               ELSE IF "on_nv=2_" \in Range(name) THEN Some(2) ELSE None,
     pix |-> IF "pix=1_" \in Range(name) THEN Some(2)
             ELSE IF "pix=0.5_" \in Range(name) THEN Some(1) ELSE None]

\* OptimalControlPulse(on_nv, pi_x, file_i, file_q)
OptimalControlPulse(on_nv, pi_x, file_i, file_q) ==
    [on_nv |-> on_nv, pi_x |-> pi_x, file_i |-> file_i, file_q |-> file_q]

\* OptimalControlPulse.equal_target_u
equal_target_u_SubsystemOnly(pulse, other_pulse) == pulse.on_nv = other_pulse.on_nv

equal_target_u(pulse, other_pulse) ==
    pulse.on_nv = other_pulse.on_nv /\ pulse.pi_x = other_pulse.pi_x

\* get_oc_pulse(on_nv, pix) on the catalog pulses (self._optimal_pulses).
get_oc_pulse(pulses, on_nv, pix) ==
    Mask(pulses, [k \in DOMAIN pulses |->
                     equal_target_u(pulses[k], OptimalControlPulse(on_nv, pix, <<>>, <<>>))])

\* find_q_files(i_file, all_files): the candidates left after filtering by
\* the directory (which every listed file passes), by the basename without
\* marker and extension and, for a bare marker name, by str_q + extension.
RECURSIVE ApplyFilters(_, _, _)
ApplyFilters(files, filters, i_file) ==
    IF filters = <<>> THEN files
    ELSE ApplyFilters(filter_str(files, Head(filters), {i_file}), Tail(filters), i_file)

\* find_q_files without the filter by basename: every other file is a
\* candidate.
find_q_files_AnyOther(i_file, all_files) == filter_str(all_files, <<>>, {i_file})

find_q_files(i_file, all_files) ==
    LET file_no_quad == RemoveToken(i_file, str_i)
        file_no_quad_no_ext == splitext(file_no_quad)[1]
        file_no_ext == splitext(i_file)[1]
        extension == splitext(i_file)[2]
        filter_list == <<<<>>, file_no_quad_no_ext>>
                       \o (IF file_no_ext = <<str_i>> THEN <<<<str_q>> \o extension>> ELSE <<>>)
    IN  ApplyFilters(all_files, filter_list, i_file)

\* The loop of load_optimal_pulses_from_path over fnames from position k on.
\* current is self._optimal_pulses, which get_oc_pulse searches; loaded is
\* loaded_pulses; warnings are the warnings logged so far.
RECURSIVE LoadLoop(_, _, _, _, _)
LoadLoop(fnames, k, current, loaded, warnings) ==
    IF k > Len(fnames) THEN [pulses |-> loaded, log |-> warnings]
    ELSE LET file == fnames[k]
             files_q == find_q_files(file, fnames)
             oc_params == params_from_str(file)
             on_nv == IF oc_params.on_nv # None THEN oc_params.on_nv[1] ELSE 1
             pix == IF oc_params.pix # None THEN oc_params.pix[1] ELSE 2
             exist_pulses == get_oc_pulse(current, on_nv, pix)
         IN  IF str_i \notin Range(file)
             THEN LoadLoop(fnames, k + 1, current, loaded, warnings)
             ELSE IF Len(files_q) # 1
             THEN LoadLoop(fnames, k + 1, current, loaded,
                           Append(warnings, [warning |-> "no q file", file |-> file]))
             ELSE IF Len(exist_pulses) # 0
             THEN LoadLoop(fnames, k + 1, current, loaded,
                           Append(warnings, [warning |-> "skip duplicate", file |-> file]))
             ELSE LoadLoop(fnames, k + 1, current,
                           Append(loaded, OptimalControlPulse(on_nv, pix, file, files_q[1])),
                           warnings)

\* load_optimal_pulses_from_path called on an engine whose catalog is current.
load_optimal_pulses_from_path(fnames, current) == LoadLoop(fnames, 1, current, <<>>, <<>>)

(***************************************************************************)
(* Composite rotation-pulse builder: get_pi_element, _get_pi_oc_element    *)
(***************************************************************************)
\* 1e-99, the amplitude that stands for "no amplitude, but keep the pulse"
PlaceholderAmp == 1

\* The on_nv argument: None, an integer, or a list of integers.
NoneNv == [t |-> "none", v |-> <<>>]
IntNv(x) == [t |-> "int", v |-> <<x>>]
ListNv(l) == [t |-> "list", v |-> l]

\* What get_pi_element gives back: the outcome, the number of catalog lookups
\* (get_oc_pulse calls) it made and the warnings it logged.
PiResult(outcome, lookups, warnings) ==
    [kind |-> outcome.kind, val |-> IF outcome.kind = "ok" THEN outcome.val ELSE <<>>,
     lookups |-> lookups, log |-> warnings]

\* The element list made by the generation method 'oc_mw_multi_only' from
\* the catalog files; its sampled length is not known to this module.
OcElement(freqs, phases, files) ==
    [kind |-> "oc", init_length_s |-> 0, increment_s |-> 0,
     amps |-> files, freqs |-> freqs, phases |-> phases]

\* "if len(oc_pulse) != 1": the lookup did not resolve to one pulse.
LookupFails_OnlyEmpty(found) == Len(found) = 0

LookupFails(found) == Len(found) # 1

\* _get_pi_oc_element(phases, freqs, on_nv, pi_x_length) on the catalog pulses.
get_pi_oc_element(pulses, phases, freqs, on_nv, pi_x_length) ==
    LET nvs == on_nv.v             \* an int becomes [on_nv]
        found == [k \in DOMAIN nvs |-> get_oc_pulse(pulses, nvs[k], pi_x_length)]
        bad == {k \in DOMAIN nvs : LookupFails(found[k])}
        first_bad == CHOOSE k \in bad : \A j \in bad : k <= j
    IN  IF Len(phases) # Len(freqs) THEN PiResult(Raise("ValueError"), 0, <<>>)
        ELSE IF on_nv.t = "none" THEN PiResult(Raise("TypeError"), 0, <<>>)   \* len(None)
        ELSE IF Len(freqs) # Len(nvs) THEN PiResult(Raise("ValueError"), 0, <<>>)
        ELSE IF bad # {} THEN PiResult(Raise("ValueError"), first_bad, <<>>)
        ELSE PiResult(Ok(<<OcElement(freqs, phases,
                              [k \in DOMAIN nvs |-> <<found[k][1].file_i, found[k][1].file_q>>])>>),
                      Len(nvs), <<>>)

\* "if pi_x_length == 0.: return []"
ZeroFraction_Never(pi_x_length) == FALSE

ZeroFraction(pi_x_length) == pi_x_length = 0

\* get_pi_element(xphase, mw_freqs, mw_amps, rabi_periods, pi_x_length,
\* no_amps_2_idle, env_type, on_nv) on the catalog pulses.  pi_x_length is
\* 2*pi_x, so pi_x * rabi / 2 is pi_x_length * rabi / 4.
get_pi_element(pulses, xphase, mw_freqs, mw_amps_in, rabi_periods, pi_x_length, no_amps_2_idle, env_type_in, on_nv) ==
    LET to_idle == no_amps_2_idle /\ \A k \in DOMAIN mw_amps_in : mw_amps_in[k] = 0
        mw_amps == IF to_idle THEN [k \in DOMAIN mw_amps_in |-> PlaceholderAmp]
                   ELSE mw_amps_in
        env_type == IF to_idle THEN "rectangle" ELSE env_type_in
        nonzero == [k \in DOMAIN mw_amps |-> mw_amps[k] # 0]
        lenghts == Mask([k \in DOMAIN rabi_periods |-> (pi_x_length * rabi_periods[k]) \div 4],
                        nonzero)
        amps == Mask(mw_amps, nonzero)
        fs == Mask(mw_freqs, nonzero)
        phases == [k \in DOMAIN amps |-> xphase]
        warnings == IF on_nv.t # "none" THEN <<[warning |-> "on_nv ignored", file |-> <<>>]>>
                    ELSE <<>>
    IN  IF ZeroFraction(pi_x_length) THEN PiResult(Ok(<<>>), 0, <<>>)
        ELSE IF env_type = "rectangle"
             THEN PiResult(get_multiple_mw_mult_length_element(lenghts, ScalarInc(0),
                                                               amps, fs, phases),
                           0, warnings)
        ELSE IF env_type = "optimal"
             THEN get_pi_oc_element(pulses, phases, fs, on_nv, pi_x_length)
        ELSE PiResult(Raise("ValueError"), 0, <<>>)

(***************************************************************************)
(* Specification SpecPartition: calls of the segment partitioner           *)
(***************************************************************************)
MaxCh == 3                          \* channels per request

PartLengths == {-10, 0, 10, 30, 50}     \* requested durations
\* Channel ch is requested with amplitude 0, or with its own amplitude ch and
\* a valid phase, or with amplitude ch and phase nan.
ChannelDrives(ch) == {<<0, "0">>, <<ch, "0">>, <<ch, "nan">>}

\* The increments of a request over n channels: a scalar, one common value
\* per channel, or values that differ between channels.
IncrementChoices(n) ==
    {ScalarInc(0), ScalarInc(5), ListInc([i \in 1..n |-> 0]), ListInc([i \in 1..n |-> 5])}
    \cup (IF n >= 2 THEN {ListInc([i \in 1..n |-> IF i = 1 THEN 5 ELSE 0]),
                          ListInc([i \in 1..n |-> IF i = 1 THEN 5 ELSE 10])}
          ELSE {})

\* The amplitude and phase arrays in which every channel has one of its drives.
DriveChoices(n) ==
    {d \in [1..n -> UNION {ChannelDrives(c) : c \in 1..n}] :
        \A i \in 1..n : d[i] \in ChannelDrives(i)}

PartitionCall(l, inc, d) ==
    [op |-> "partition", lengths |-> l, increments |-> inc,
     amps |-> [i \in DOMAIN d |-> d[i][1]], freqs |-> [i \in DOMAIN d |-> i],
     phases |-> [i \in DOMAIN d |-> d[i][2]]]

\* The requests of the documented examples: durations [100, 10, 10],
\* [10, 100, 80] and [10, 80, 100] with amplitudes [0.1, 0.2, 0.3].
PartitionExamples ==
    {PartitionCall(l, ScalarInc(0), <<<<1, "0">>, <<2, "0">>, <<3, "0">>>>) :
        l \in {<<100, 10, 10>>, <<10, 100, 80>>, <<10, 80, 100>>}}

InitPartition ==
    /\ pc = "called"
    /\ \/ \E n \in 0..MaxCh :
            \E l \in [1..n -> PartLengths], d \in DriveChoices(n), inc \in IncrementChoices(n) :
                call = PartitionCall(l, inc, d)
       \/ call \in PartitionExamples
       \/ \E nl, ni, na, nf, np \in 0..MaxCh :
            \E l \in {[i \in 1..nl |-> 10], [i \in 1..nl |-> 10 * i]},
               inc \in IncrementChoices(ni),
               a \in {[i \in 1..na |-> 0], [i \in 1..na |-> i]} :
                call = [op |-> "partition", lengths |-> l, increments |-> inc,
                        amps |-> a, freqs |-> [i \in 1..nf |-> i],
                        phases |-> [i \in 1..np |-> "0"]]
    /\ ret = NoRet
    /\ log = <<>>
    /\ optimal_pulses = <<>>
    /\ ParametersUntouched
    /\ ManagerEmpty
    /\ ScannerIdle

\* One call of _get_multiple_mw_mult_length_element.
Partition ==
    /\ pc = "called"
    /\ call.op = "partition"
    /\ ret' = get_multiple_mw_mult_length_element(call.lengths, call.increments,
                                                  call.amps, call.freqs, call.phases)
    /\ pc' = "returned"
    /\ UNCHANGED <<call, log, optimal_pulses>>
    /\ UNCHANGED <<override_vars, manager_vars, scanner_vars>>

NextPartition == Partition

SpecPartition == InitPartition /\ [][NextPartition]_vars

\* The partitioner has returned a list of segments.
PartitionReturned == pc = "returned" /\ call.op = "partition" /\ ret.kind = "ok"

\* Sum of the durations of the returned segments in which channel ch is active.
ActiveSum(elements, ch) ==
    SeqSum([i \in DOMAIN elements |->
               IF elements[i].amps[ch] # 0 THEN elements[i].init_length_s ELSE 0])

\* <<duration, amplitudes>> of each returned segment.
Segments(elements) ==
    [i \in DOMAIN elements |-> <<elements[i].init_length_s, elements[i].amps>>]

\* C1 as stated: every channel requested with a positive duration and a
\* nonzero amplitude is active for exactly its requested duration in the
\* returned segments.
C1_AsStated ==
    PartitionReturned =>
        \A ch \in DOMAIN call.lengths :
            (call.lengths[ch] > 0 /\ call.amps[ch] # 0)
                => ActiveSum(ret.val, ch) = call.lengths[ch]

\* C1 amended: every channel requested with a positive duration, a nonzero
\* amplitude and a phase that is a number is active for exactly its requested
\* duration; durations [100,10,10] give active sums [100,10,10]; durations
\* [50,30] with amplitudes [0.1,0.2] give (30,[0.1,0.2]) then (20,[0.1,0.0]).
C1_PartitionCompleteness ==
    PartitionReturned =>
        /\ \A ch \in DOMAIN call.lengths :
              (call.lengths[ch] > 0 /\ call.amps[ch] # 0 /\ call.phases[ch] # "nan")
                  => ActiveSum(ret.val, ch) = call.lengths[ch]
        /\ (call.lengths = <<50, 30>> /\ call.amps = <<1, 2>>
            /\ call.phases = <<"0", "0">>)
              => Segments(ret.val) = << <<30, <<1, 2>>>>, <<20, <<1, 0>>>> >>

\* C1 witness: the two-channel example has been partitioned into two segments.
C1_Witness ==
    /\ PartitionReturned
    /\ call.lengths = <<50, 30>> /\ call.amps = <<1, 2>>
    /\ call.phases = <<"0", "0">>
    /\ Len(ret.val) = 2

\* The increments array the partitioner compares: a scalar 0 is expanded to
\* one 0 per duration.
EffectiveIncrements ==
    IF call.increments.kind = "scalar" THEN [i \in DOMAIN call.lengths |-> 0]
    ELSE call.increments.list

\* A finished partitioner call whose five arrays do not all have one length.
MismatchedCall ==
    /\ pc = "returned" /\ call.op = "partition"
    /\ ~(call.increments.kind = "scalar" /\ call.increments.x # 0)
    /\ \E x, y \in {Len(call.lengths), Len(EffectiveIncrements), Len(call.amps),
                     Len(call.freqs), Len(call.phases)} : x # y

C13_CommonIncrement ==
    (pc = "returned" /\ call.op = "partition" /\ call.increments.kind = "list"
     /\ \E i, j \in DOMAIN call.increments.list :
            call.increments.list[i] # call.increments.list[j])
        => ret.kind = "NotImplementedError"

\* C13 witness: two channels of equal array shapes with the different
\* nonzero increments 5 and 10 have been rejected.
C13_Witness ==
    /\ pc = "returned" /\ call.op = "partition"
    /\ call.increments = ListInc(<<5, 10>>)
    /\ Len(call.lengths) = 2 /\ Len(call.amps) = 2 /\ Len(call.freqs) = 2
    /\ Len(call.phases) = 2
    /\ ret.kind = "NotImplementedError"

\* The amplitude a channel is partitioned with: 0 if its phase is nan.
EffectiveAmp(ch) == IF call.phases[ch] = "nan" THEN 0 ELSE call.amps[ch]

\* C21: in the returned list every channel's active segments form a prefix:
\* a channel with zero amplitude in a segment has zero amplitude in every
\* later one; and a channel with a shorter requested duration is never
\* active in a segment in which a channel of longer requested duration and
\* nonzero amplitude is inactive.
C21_SwitchOffOrder ==
    PartitionReturned =>
        /\ \A ch \in DOMAIN call.lengths : \A i, j \in DOMAIN ret.val :
              (i < j /\ ret.val[i].amps[ch] = 0) => ret.val[j].amps[ch] = 0
        /\ \A short, long \in DOMAIN call.lengths : \A i \in DOMAIN ret.val :
              (/\ call.lengths[short] < call.lengths[long]
               /\ EffectiveAmp(long) # 0
               /\ ret.val[i].amps[short] # 0)
                  => ret.val[i].amps[long] # 0

\* C21 witness: three driven channels of durations 30, 10, 50 have been
\* partitioned into three segments; the second channel is active in the
\* first only, the first in the first two, the third in all.
C21_Witness ==
    /\ PartitionReturned
    /\ call.lengths = <<30, 10, 50>>
    /\ \A ch \in 1..3 : EffectiveAmp(ch) # 0
    /\ Len(ret.val) = 3
    /\ ret.val[2].amps[2] = 0 /\ ret.val[2].amps[1] # 0
    /\ ret.val[3].amps[1] = 0 /\ ret.val[3].amps[3] # 0

\* C22 as stated: no two consecutive returned segments carry the same
\* per-channel amplitude vector, also when some channel has zero amplitude
\* (requested, or forced by a nan phase).
C22_AsStated ==
    PartitionReturned =>
        \A i \in DOMAIN ret.val :
            (i + 1) \in DOMAIN ret.val => ret.val[i].amps # ret.val[i + 1].amps

\* The distinct requested durations.
DistinctDurations == {call.lengths[ch] : ch \in DOMAIN call.lengths}

\* C23: the partitioner returns at most as many segments as there are
\* distinct requested durations, and every returned segment has a strictly
\* positive duration; channels of equal requested duration share a segment.
C23_SegmentCount ==
    PartitionReturned =>
        /\ Len(ret.val) <= Cardinality(DistinctDurations)
        /\ \A i \in DOMAIN ret.val : ret.val[i].init_length_s > 0

\* C23 witness: three channels, two of them of the same duration 10 and one
\* of the negative duration -10, have been partitioned into one segment.
C23_Witness ==
    /\ PartitionReturned
    /\ call.lengths = <<10, -10, 10>>
    /\ Len(ret.val) = 1
    /\ ret.val[1].init_length_s = 10

\* C24: at most one returned segment carries a nonzero increment: the first
\* carries the common requested increment and every later one increment 0.
C24_SingleIncrement ==
    PartitionReturned =>
        /\ \A i \in DOMAIN ret.val : i > 1 => ret.val[i].increment_s = 0
        /\ ret.val # <<>> =>
              \A ch \in DOMAIN EffectiveIncrements :
                  ret.val[1].increment_s = EffectiveIncrements[ch]

\* C24 witness: a request with the common increment 5 has been partitioned
\* into two segments or more, the first of which carries 5.
C24_Witness ==
    /\ PartitionReturned
    /\ call.increments.kind = "list"
    /\ Len(ret.val) >= 2
    /\ ret.val[1].increment_s = 5

\* C25: a channel whose requested phase is nan has zero amplitude in every
\* returned segment, whatever amplitude was requested; every other channel
\* has its requested amplitude in the segments in which it is active, and
\* is active in the first segment if its duration is positive.
C25_NanPhase ==
    PartitionReturned =>
        \A ch \in DOMAIN call.lengths : \A i \in DOMAIN ret.val :
            IF call.phases[ch] = "nan"
            THEN ret.val[i].amps[ch] = 0
            ELSE /\ ret.val[i].amps[ch] \in {0, call.amps[ch]}
                 /\ (i = 1 /\ call.lengths[ch] > 0) => ret.val[i].amps[ch] = call.amps[ch]

\* C25 witness: a channel requested with a nonzero amplitude, a positive
\* duration and phase nan beside a driven channel: segments are returned,
\* the other channel is active in the first.
C25_Witness ==
    /\ PartitionReturned
    /\ Len(call.lengths) = 2
    /\ call.phases = <<"nan", "0">> /\ call.amps = <<1, 2>>
    /\ call.lengths = <<30, 10>>
    /\ Len(ret.val) = 2
    /\ ret.val[1].amps = <<0, 2>>

(***************************************************************************)
(* Parameter vector builder: _create_param_array                           *)
(***************************************************************************)
Min(a, b) == IF a < b THEN a ELSE b
Max(a, b) == IF a > b THEN a ELSE b

\* Python's normalisation of a slice bound i for a list of length n.
SliceIndex(i, n) == IF i < 0 THEN Max(i + n, 0) ELSE Min(i, n)

\* inlist[a:b] with 0-based bounds a, b (negative bounds count from the end).
Slice(inlist, a, b) ==
    LET lo == SliceIndex(a, Len(inlist))
        hi == SliceIndex(b, Len(inlist))
    IN  IF lo < hi THEN SubSeq(inlist, lo + 1, hi) ELSE <<>>

RECURSIVE Flatten(_)
Flatten(ss) == IF ss = <<>> THEN <<>> ELSE Head(ss) \o Flatten(Tail(ss))

\* sublists(inlist, n) for n > 0: [inlist[i:i+n] for i in range(0, len(inlist), n)].
sublists(inlist, n) ==
    [k \in 1..((Len(inlist) + n - 1) \div n) |-> Slice(inlist, (k - 1) * n, k * n)]

\* SortByLabel without the sort: the chunks stay in their native order.
SortByLabel_NoSort(chunks, order) ==
    [k \in 1..Min(Len(chunks), Len(order)) |-> chunks[k]]

\* [p for p, i in sorted(zip(chunks, order), key=label)]: zip stops at the
\* shorter list, the sort is stable.
SortByLabel(chunks, order) ==
    LET m == Min(Len(chunks), Len(order))
        labels == SubSeq(order, 1, m)
    IN  [k \in 1..m |-> chunks[SortedChannel(labels, k)]]

\* array = [in_value] if in_value else []; array.extend(in_list)
ConcatPrimary(in_value, in_list) ==
    (IF in_value # 0 THEN <<in_value>> ELSE <<>>) \o in_list

\* IsolateChunk with the slice taken from i_start + 1: the selected chunk is
\* shifted by one slot.
IsolateChunk_Shifted(all_nv_params, n_nvs, idx_nv) ==
    LET len_single_nv == Len(all_nv_params) \div n_nvs
        i_start == idx_nv * len_single_nv + 1
        i_end == i_start + len_single_nv
        lo == SliceIndex(i_start, Len(all_nv_params))
        hi == SliceIndex(i_end, Len(all_nv_params))
    IN  [k \in DOMAIN all_nv_params |->
            IF lo < k /\ k <= hi THEN all_nv_params[k] ELSE 0]

\* single_nv_params = zeros(len); single[i_start:i_end] = all[i_start:i_end]
IsolateChunk(all_nv_params, n_nvs, idx_nv) ==
    LET len_single_nv == Len(all_nv_params) \div n_nvs
        i_start == idx_nv * len_single_nv
        i_end == i_start + len_single_nv
        lo == SliceIndex(i_start, Len(all_nv_params))
        hi == SliceIndex(i_end, Len(all_nv_params))
    IN  [k \in DOMAIN all_nv_params |->
            IF lo < k /\ k <= hi THEN all_nv_params[k] ELSE 0]

\* The reordering step on its own: the array after "if order_nvs != None".
\* order_nvs is the list csv_2_list gives; n_nvs is None or <<n>>.
ReorderStep(all_nv_params, n_nvs, order_nvs) ==
    IF order_nvs = None THEN Ok(all_nv_params)
    ELSE IF n_nvs = None THEN Raise("TypeError")            \* len(...) / None
    ELSE IF Len(all_nv_params) \div n_nvs[1] = 0
         THEN Raise("ValueError")                           \* range() step 0
    ELSE Ok(Flatten(SortByLabel(
                sublists(all_nv_params, Len(all_nv_params) \div n_nvs[1]),
                order_nvs)))

\* The index check of the isolation step.
IndexOutOfRange(idx_nv, n_nvs) == idx_nv >= n_nvs

\* _create_param_array(in_value, in_list, n_nvs, idx_nv, order_nvs)
create_param_array(in_value, in_list, n_nvs, idx_nv, order_nvs) ==
    LET reordered == ReorderStep(ConcatPrimary(in_value, in_list), n_nvs, order_nvs)
    IN  IF reordered.kind # "ok" THEN reordered
        ELSE IF n_nvs # None /\ idx_nv # None
             THEN IF IndexOutOfRange(idx_nv[1], n_nvs[1]) THEN Raise("ValueError")
                  ELSE Ok(IsolateChunk(reordered.val, n_nvs[1], idx_nv[1]))
        ELSE reordered

(***************************************************************************)
(* Specification SpecParam: calls of _create_param_array                   *)
(***************************************************************************)
MaxList == 3                  \* length of the additional list
MaxNv == 3                    \* subsystems
ParamValues == {0, 1, 2}      \* values of the primary and of the list slots

LabelPermutations(n) == {f \in [1..n -> 1..n] : \A i, j \in 1..n : f[i] = f[j] => i = j}

OrderChoices(n_nvs) ==
    {None} \cup (IF n_nvs = None THEN {<<2, 1>>} ELSE LabelPermutations(n_nvs[1]))

InitParam ==
    /\ pc = "called"
    /\ \E v \in ParamValues, len \in 0..MaxList,
          n_nvs \in {None} \cup {Some(n) : n \in 1..MaxNv},
          idx_nv \in {None} \cup {Some(i) : i \in (0 - MaxNv)..MaxNv} :
          \E l \in [1..len -> ParamValues], order \in OrderChoices(n_nvs) :
              call = [op |-> "create_param_array", in_value |-> v, in_list |-> l,
                      n_nvs |-> n_nvs, idx_nv |-> idx_nv, order_nvs |-> order]
    /\ ret = NoRet
    /\ log = <<>>
    /\ optimal_pulses = <<>>
    /\ ParametersUntouched
    /\ ManagerEmpty
    /\ ScannerIdle

\* One call of _create_param_array.
CreateParamArray ==
    /\ pc = "called"
    /\ call.op = "create_param_array"
    /\ ret' = create_param_array(call.in_value, call.in_list, call.n_nvs,
                                 call.idx_nv, call.order_nvs)
    /\ pc' = "returned"
    /\ UNCHANGED <<call, log, optimal_pulses>>
    /\ UNCHANGED <<override_vars, manager_vars, scanner_vars>>

NextParam == CreateParamArray

SpecParam == InitParam /\ [][NextParam]_vars

\* _create_param_array has returned or raised.
ParamDone == pc = "returned" /\ call.op = "create_param_array"

\* The array the code builds from the primary value and the additional list.
BuiltArray == ConcatPrimary(call.in_value, call.in_list)

\* The k-th of n equal chunks of arr (k = 1..n).
Chunk(arr, n, k) ==
    SubSeq(arr, (k - 1) * (Len(arr) \div n) + 1, k * (Len(arr) \div n))

\* C4 as stated: without reordering and isolation the returned array has
\* length 1 + len(additional list) and its first slot is the primary value,
\* for every primary value including 0.
C4_AsStated ==
    (ParamDone /\ call.order_nvs = None /\ (call.n_nvs = None \/ call.idx_nv = None))
        => /\ ret.kind = "ok"
           /\ Len(ret.val) = 1 + Len(call.in_list)
           /\ ret.val[1] = call.in_value

\* C5: with subsystem count n, isolation index i in [0, n) and an array whose
\* length is divisible by n, the returned array has the same length, equals
\* the array in the chunk at position i and is 0 in every other slot.
C5_Isolation ==
    (/\ ParamDone /\ call.n_nvs # None /\ call.idx_nv # None
     /\ ReorderStep(BuiltArray, call.n_nvs, call.order_nvs).kind = "ok") =>
        LET arr == ReorderStep(BuiltArray, call.n_nvs, call.order_nvs).val
            n == call.n_nvs[1]
            i == call.idx_nv[1]
            m == Len(arr) \div n
        IN  (0 <= i /\ i < n /\ Len(arr) % n = 0) =>
                /\ ret.kind = "ok"
                /\ Len(ret.val) = Len(arr)
                /\ \A k \in 1..Len(arr) :
                      ret.val[k] = IF i * m < k /\ k <= (i + 1) * m THEN arr[k] ELSE 0

\* C5 witness: n = 2, index 1 on [a,b,c,d] = [1,2,1,2] has returned [0,0,1,2].
C5_Witness ==
    /\ ParamDone /\ call.order_nvs = None
    /\ call.in_value = 1 /\ call.in_list = <<2, 1, 2>>
    /\ call.n_nvs = Some(2) /\ call.idx_nv = Some(1)
    /\ ret = Ok(<<0, 0, 1, 2>>)

\* C6 as stated: an isolation index outside [0, n), whether >= n or negative,
\* raises a validation error and returns no array.
C6_AsStated ==
    (/\ ParamDone /\ call.n_nvs # None /\ call.idx_nv # None
     /\ (call.idx_nv[1] < 0 \/ call.idx_nv[1] >= call.n_nvs[1]))
        => ret.kind = "ValueError"

\* C7 as stated: isolating on an array whose length is not divisible by n
\* raises a validation error.
C7_AsStated ==
    (/\ ParamDone /\ call.n_nvs # None /\ call.idx_nv # None
     /\ Len(BuiltArray) % call.n_nvs[1] # 0)
        => ret.kind = "ValueError"

\* The calls C8 is about: a permutation of the labels 1..n, no isolation, and
\* an array that splits into n equal non-empty chunks.
ReorderCase ==
    /\ ParamDone /\ call.order_nvs # None /\ call.n_nvs # None /\ call.idx_nv = None
    /\ call.order_nvs \in LabelPermutations(call.n_nvs[1])
    /\ Len(BuiltArray) > 0 /\ Len(BuiltArray) % call.n_nvs[1] = 0

\* C8 as stated: output position k holds the input chunk of the subsystem
\* named by the k-th label.
C8_AsStated ==
    ReorderCase =>
        /\ ret.kind = "ok" /\ Len(ret.val) = Len(BuiltArray)
        /\ \A k \in 1..call.n_nvs[1] :
              Chunk(ret.val, call.n_nvs[1], k)
                  = Chunk(BuiltArray, call.n_nvs[1], call.order_nvs[k])

\* C8 amended: the chunks are sorted by their labels, so the output position
\* named by the k-th label holds the k-th input chunk; the output has the
\* same length and the same chunks as the input, and for n = 2, order "2,1"
\* and input [a,b] it is [b,a].
C8_Reordering ==
    ReorderCase =>
        /\ ret.kind = "ok" /\ Len(ret.val) = Len(BuiltArray)
        /\ \A k \in 1..call.n_nvs[1] :
              Chunk(ret.val, call.n_nvs[1], call.order_nvs[k])
                  = Chunk(BuiltArray, call.n_nvs[1], k)
        /\ (call.n_nvs = Some(2) /\ call.order_nvs = <<2, 1>> /\ Len(BuiltArray) = 2)
              => ret.val = <<BuiltArray[2], BuiltArray[1]>>

\* C8 witness: order "2,3,1" on [1,2,0] has returned [0,1,2].
C8_Witness ==
    /\ ReorderCase
    /\ call.order_nvs = <<2, 3, 1>> /\ call.in_value = 1 /\ call.in_list = <<2, 0>>
    /\ ret = Ok(<<0, 1, 2>>)

(***************************************************************************)
(* Recipe generate_deer_dd_tau (rectangular envelopes)                     *)
(***************************************************************************)
\* get_element_length(el_list)
get_element_length(el_list) ==
    IF SeqSum([k \in DOMAIN el_list |-> el_list[k].increment_s]) # 0
    THEN Raise("ValueError")
    ELSE Ok(SeqSum([k \in DOMAIN el_list |-> el_list[k].init_length_s]))

\* get_element_length_max(el_list, n_tau)
get_element_length_max(el_list, n_tau) ==
    SeqSum([k \in DOMAIN el_list |-> el_list[k].init_length_s])
    + (n_tau - 1) * SeqSum([k \in DOMAIN el_list |-> el_list[k].increment_s])

\* "if tauhalf_bef_min < 0 or tauhalf_aft_min < 0": the spacing check.
NegativeSpacing(tauhalf_bef_min, tauhalf_aft_min) ==
    tauhalf_bef_min < 0 \/ tauhalf_aft_min < 0

\* tau_2_pulse_spacing(tau, custom_func=[lambda t: t - overhead, ...]) as the
\* recipe calls it: the spacing left of tau once the pulses are subtracted.
tau_2_pulse_spacing(tau, overhead) == tau - overhead

\* _add_trigger(created_blocks, block_ensemble): the sync trigger block is
\* appended, once, if the engine has a sync channel.
add_trigger(sync_channel) == sync_channel # ""

\* The readout elements appended unless no_laser: laser, delay, wait.
LaserElements ==
    <<[kind |-> "laser", init_length_s |-> 3000, increment_s |-> 0,
       amps |-> <<>>, freqs |-> <<>>, phases |-> <<>>],
      [kind |-> "delay", init_length_s |-> 500, increment_s |-> 0,
       amps |-> <<>>, freqs |-> <<>>, phases |-> <<>>],
      IdleElement(1000, 0)>>

\* The elements one pass of the DD loops appends from step s on; step s is
\* (n, pulse_number) = (s div suborder, s mod suborder).  e holds the
\* elements made before the loop, a the arguments.
RECURSIVE DeerLoop(_, _, _)
DeerLoop(s, a, e) ==
    IF s >= a.dd_order * a.dd_type.suborder THEN <<>>
    ELSE LET n == s \div a.dd_type.suborder
             pulse_number == s % a.dd_type.suborder
             first == n = 0 /\ pulse_number = 0
             last == n = a.dd_order - 1 /\ pulse_number = a.dd_type.suborder - 1
             phase == a.dd_type.phases[pulse_number + 1]
         IN  <<IF first THEN e.tauhalf_first_element ELSE e.tauhalf_bef_element>>
             \o e.pi_on1[phase]
             \o <<IF last THEN e.tauhalf_last_element ELSE e.tauhalf_aft_element>>
             \o (IF last THEN (IF a.end_pix_on_2 # 0 THEN e.pix_end_on2[phase] ELSE <<>>)
                 ELSE e.pi_on2[phase])
             \o DeerLoop(s + 1, a, e)

\* generate_deer_dd_tau with env_type_1 = env_type_2 = rectangle.  a holds
\* the arguments and the generation parameters rabi_period and
\* microwave_amplitude.
generate_deer_dd_tau(a) ==
    LET n2 == Some(2)
        rabi_periods == create_param_array(a.rabi_period, a.rabi_period_mw_2, n2, None, a.nv_order)
        amplitudes == create_param_array(a.microwave_amplitude, a.ampl_mw_2, n2, None, a.nv_order)
        ampls_on_1 == create_param_array(a.microwave_amplitude, a.ampl_mw_2, n2, Some(0), a.nv_order)
        ampls_on_2 == create_param_array(a.microwave_amplitude, a.ampl_mw_2, n2, Some(1), a.nv_order)
        mw_freqs == create_param_array(1, <<2>>, n2, None, a.nv_order)
        Pi(xphase, ampls, pi_x, no_amps_2_idle, on_nv) ==
            get_pi_element(<<>>, xphase, mw_freqs.val, ampls.val, rabi_periods.val,
                           pi_x, no_amps_2_idle, "rectangle", on_nv)
        pihalf_on1_element == Pi("0", ampls_on_1, 1, FALSE, NoneNv)
        pi_on1_element == Pi("0", ampls_on_1, 2, FALSE, NoneNv)
        pi_on2_element == Pi("0", ampls_on_2, 2, FALSE, NoneNv)
        pix_init_on2_element == Pi("0", ampls_on_2, a.init_pix_on_2, FALSE, IntNv(2))
        pix_init_on1_element == Pi("0", ampls_on_1, a.init_pix_on_1, FALSE, IntNv(1))
        pihalf_on1_read_element == Pi("180+read", ampls_on_1, 1, FALSE, NoneNv)
        pihalf_on1_alt_read_element == Pi("0+read", ampls_on_1, 1, FALSE, NoneNv)
        t_pi_on1 == get_element_length(pi_on1_element.val).val
        t_pi_on2 == get_element_length(pi_on2_element.val).val
        tauhalf_first_pspacing ==
            tau_2_pulse_spacing(a.tau1 \div 2, t_pi_on1 \div 2 + t_pi_on1 \div 4)
        pix_end_on2_element == Pi(a.dd_type.phases[1], ampls_on_2, a.end_pix_on_2, TRUE, IntNv(2))
        tauhalf_last_pspacing ==
            tau_2_pulse_spacing(a.tau1 \div 2, t_pi_on1 \div 2 + t_pi_on1 \div 4)
            - (IF a.end_pix_on_2 # 0
               THEN get_element_length(pix_end_on2_element.val).val ELSE 0)
        start_tau2_pspacing == tau_2_pulse_spacing(a.tau1, t_pi_on1 + t_pi_on2)
        e == [tauhalf_aft_element |->
                  IdleElement(start_tau2_pspacing \div 2 + a.tau_start, a.tau_step),
              tauhalf_bef_element |->
                  IdleElement(start_tau2_pspacing \div 2 - a.tau_start, 0 - a.tau_step),
              tauhalf_first_element |-> IdleElement(tauhalf_first_pspacing, 0),
              tauhalf_last_element |-> IdleElement(tauhalf_last_pspacing, 0),
              pi_on1 |-> [ph \in Range(a.dd_type.phases) |->
                             Pi(ph, ampls_on_1, 2, TRUE, NoneNv).val],
              pi_on2 |-> [ph \in Range(a.dd_type.phases) |->
                             Pi(ph, ampls_on_2, 2, TRUE, NoneNv).val],
              pix_end_on2 |-> [ph \in Range(a.dd_type.phases) |->
                                  Pi(ph, ampls_on_2, a.end_pix_on_2, TRUE, IntNv(2)).val]]
        tauhalf_bef_min == get_element_length_max(<<e.tauhalf_bef_element>>, a.num_of_points)
        tauhalf_aft_min == get_element_length_max(<<e.tauhalf_aft_element>>, a.num_of_points)
        Arm(read_element) ==
            (IF a.init_pix_on_2 # 0 THEN pix_init_on2_element.val ELSE <<>>)
            \o (IF a.init_pix_on_1 # 0 THEN pix_init_on1_element.val ELSE <<>>)
            \o pihalf_on1_element.val
            \o DeerLoop(0, a, e)
            \o read_element.val
            \o (IF ~a.no_laser THEN LaserElements ELSE <<>>)
        failed == {r \in {rabi_periods, amplitudes, ampls_on_1, ampls_on_2, mw_freqs} :
                      r.kind # "ok"}
    IN  IF failed # {} THEN Raise((CHOOSE r \in failed : TRUE).kind)
        ELSE IF NegativeSpacing(tauhalf_bef_min, tauhalf_aft_min) THEN Raise("ValueError")
        ELSE Ok([dd_block |-> Arm(pihalf_on1_read_element)
                              \o (IF a.alternating THEN Arm(pihalf_on1_alt_read_element)
                                  ELSE <<>>),
                 repetitions |-> a.num_of_points - 1,
                 trigger |-> ~a.no_laser /\ add_trigger(a.sync_channel),
                 number_of_lasers |-> IF a.alternating THEN a.num_of_points * 2
                                      ELSE a.num_of_points])

(***************************************************************************)
(* Recipe generate_ent_create_bell                                         *)
(***************************************************************************)
\* One pass of the DD loops of generate_ent_create_bell from step s on.
RECURSIVE BellLoop(_, _, _, _)
BellLoop(s, a, tauhalf_element, pi_element) ==
    IF s >= a.dd_order * a.dd_type.suborder THEN <<>>
    ELSE <<tauhalf_element>>
         \o pi_element[a.dd_type.phases[(s % a.dd_type.suborder) + 1]]
         \o <<tauhalf_element>>
         \o BellLoop(s + 1, a, tauhalf_element, pi_element)

\* The call of _add_trigger in generate_ent_create_bell: not guarded by
\* no_laser.
BellTrigger(a) == add_trigger(a.sync_channel)

\* generate_ent_create_bell.  a holds the arguments and the generation
\* parameters rabi_period, microwave_amplitude, microwave_channel and
\* sync_channel.  tau_2_pulse_spacing is called without custom_func and
\* subtracts the pi pulse of the first line (as real_start_tau does).
generate_ent_create_bell(a) ==
    LET rabi_periods == create_param_array(a.rabi_period, a.rabi_period_mw_2, None, None, None)
        amplitudes == create_param_array(a.microwave_amplitude, a.ampl_mw_2, None, None, None)
        mw_freqs == create_param_array(1, <<2>>, None, None, None)
        Both(divisor, phase) ==
            get_multiple_mw_mult_length_element(
                [k \in DOMAIN rabi_periods.val |-> rabi_periods.val[k] \div divisor],
                ListInc(<<0, 0>>), amplitudes.val, mw_freqs.val, <<phase, phase>>)
        pihalf_both_element == Both(4, "0")
        pi_both_element == Both(2, "0")
        pihalf_y_both_element == Both(4, "90")
        pihalf_y_both_read_element == Both(4, "read")
        pi3half_y_both_read_element == Both(4, "read+180")
        pi_element == [ph \in Range(a.dd_type.phases) |->
                          get_pi_element(<<>>, ph, mw_freqs.val, amplitudes.val,
                                         rabi_periods.val, 2, FALSE, "rectangle", NoneNv).val]
        start_tau_pspacing == tau_2_pulse_spacing(a.tau_start, a.rabi_period \div 2)
        tauhalf_element == IdleElement(start_tau_pspacing \div 2, a.tau_step \div 2)
        Arm(read_element) ==
            pihalf_y_both_element.val \o pi_both_element.val
            \o BellLoop(0, a, tauhalf_element, pi_element)
            \o pi_both_element.val \o read_element.val
            \o (IF ~a.no_laser THEN LaserElements ELSE <<>>)
        failed == {r \in {pihalf_both_element, pi_both_element, pihalf_y_both_element,
                          pihalf_y_both_read_element} : r.kind # "ok"}
    IN  IF failed # {} THEN Raise((CHOOSE r \in failed : TRUE).kind)
        ELSE IF a.microwave_channel[1] # "a" THEN Raise("ValueError")
        ELSE Ok([dd_block |-> Arm(pihalf_y_both_read_element)
                              \o (IF a.alternating THEN Arm(pi3half_y_both_read_element)
                                  ELSE <<>>),
                 repetitions |-> a.num_of_points - 1,
                 trigger |-> BellTrigger(a),
                 number_of_lasers |-> IF a.alternating THEN a.num_of_points * 2
                                      ELSE a.num_of_points])

(***************************************************************************)
(* Specification Spec: the engine, from construction on                    *)
(***************************************************************************)
MaxFiles == 4                 \* files in the asset directory
MaxLines == 2                 \* microwave lines of a rotation request

\* The files an asset directory may hold: in-phase/quadrature pairs for
\* on_nv=1, for pix=1 (also subsystem 1, fraction 1, by defaulting), for
\* on_nv=2 and for on_nv=1 with pix=0.5, and a second quadrature candidate
\* for the on_nv=1 pair.
FilePool ==
    {<<"on_nv=1_", "amplitude", ".txt">>, <<"on_nv=1_", "phase", ".txt">>,
     <<"pix=1_", "amplitude", ".txt">>, <<"pix=1_", "phase", ".txt">>,
     <<"on_nv=2_", "amplitude", ".txt">>, <<"on_nv=2_", "phase", ".txt">>,
     <<"on_nv=1_", "pix=0.5_", "amplitude", ".txt">>,
     <<"on_nv=1_", "pix=0.5_", "phase", ".txt">>,
     <<"on_nv=1_", "phase", ".dat">>}

\* A directory listing: distinct files in any order.
IsListing(f) == \A i, j \in DOMAIN f : f[i] = f[j] => i = j

Init ==
    /\ pc = "constructing"        \* in __init__, after self._optimal_pulses = []
    /\ call = NoCall
    /\ ret = NoRet
    /\ log = <<>>
    /\ optimal_pulses = <<>>
    /\ ParametersUntouched
    /\ ManagerEmpty
    /\ ScannerIdle

\* _init_optimal_control, called by __init__: the catalog becomes what
\* load_optimal_pulses_from_path returns for the directory's files.
InitOptimalControl ==
    /\ pc = "constructing"
    /\ \E k \in 0..MaxFiles :
         \E fnames \in [1..k -> FilePool] :
            /\ IsListing(fnames)
            /\ LET loaded == load_optimal_pulses_from_path(fnames, optimal_pulses)
               IN  /\ optimal_pulses' = loaded.pulses
                   /\ log' = loaded.log
                   /\ ret' = Ok(loaded.pulses)
            /\ call' = [op |-> "_init_optimal_control", fnames |-> fnames]
    /\ pc' = "loaded"
    /\ UNCHANGED <<override_vars, manager_vars, scanner_vars>>

\* The caller takes the result; the engine is ready for the next call.
Return ==
    /\ pc \in {"loaded", "returned"}
    /\ pc' = "ready"
    /\ call' = NoCall
    /\ ret' = NoRet
    /\ log' = <<>>
    /\ UNCHANGED optimal_pulses
    /\ UNCHANGED <<override_vars, manager_vars, scanner_vars>>

\* One call of get_pi_element on the constructed engine.  Line k has
\* frequency k and amplitude 0 or 10*k; rabi periods are multiples of 8, or
\* 0 on every line but the first (as _create_param_array makes them).
GetPiElement ==
    /\ pc = "ready"
    /\ \E n \in 1..MaxLines :
         \E mw_amps \in [1..n -> {0} \cup {10 * k : k \in 1..n}],
            rabi \in {[k \in 1..n |-> 8], [k \in 1..n |-> 8 * k],
                      [k \in 1..n |-> IF k = 1 THEN 8 ELSE 0]},
            xphase \in {"0", "nan"}, pi_x \in {0, 1, 2}, no_amps_2_idle \in BOOLEAN,
            env_type \in {"rectangle", "optimal", "gaussian"},
            on_nv \in {NoneNv, IntNv(1), IntNv(2), ListNv(<<1, 2>>)} :
            /\ \A k \in 1..n : mw_amps[k] \in {0, 10 * k}
            /\ call' = [op |-> "get_pi_element", xphase |-> xphase,
                        mw_freqs |-> [k \in 1..n |-> k], mw_amps |-> mw_amps,
                        rabi_periods |-> rabi, pi_x |-> pi_x,
                        no_amps_2_idle |-> no_amps_2_idle, env_type |-> env_type,
                        on_nv |-> on_nv]
            /\ LET r == get_pi_element(optimal_pulses, xphase, [k \in 1..n |-> k], mw_amps,
                                       rabi, pi_x, no_amps_2_idle, env_type, on_nv)
               IN  /\ ret' = [kind |-> r.kind, val |-> r.val, lookups |-> r.lookups]
                   /\ log' = r.log
    /\ pc' = "returned"
    /\ UNCHANGED optimal_pulses
    /\ UNCHANGED <<override_vars, manager_vars, scanner_vars>>

\* One call of get_oc_pulse(on_nv, pix) on the constructed engine.
GetOcPulse ==
    /\ pc = "ready"
    /\ \E on_nv \in {1, 2}, pix \in {1, 2} :
          /\ call' = [op |-> "get_oc_pulse", on_nv |-> on_nv, pix |-> pix]
          /\ ret' = Ok(get_oc_pulse(optimal_pulses, on_nv, pix))
    /\ pc' = "returned"
    /\ UNCHANGED <<log, optimal_pulses>>
    /\ UNCHANGED <<override_vars, manager_vars, scanner_vars>>

Next == InitOptimalControl \/ Return \/ GetPiElement \/ GetOcPulse

Spec == Init /\ [][Next]_vars

\* C2 as stated: after the catalog is loaded at engine initialization it
\* holds at most one entry per (target subsystem, rotation fraction) pair.
C2_AsStated ==
    pc # "constructing" =>
        \A i, j \in DOMAIN optimal_pulses :
            equal_target_u(optimal_pulses[i], optimal_pulses[j]) => i = j

\* get_pi_element has returned or raised.
PiDone == pc = "returned" /\ call.op = "get_pi_element"

Matches(nv, pix) ==
    Cardinality({k \in DOMAIN optimal_pulses :
                    optimal_pulses[k].on_nv = nv /\ optimal_pulses[k].pi_x = pix})

\* The calls C10 is about: optimal mode, nonzero fraction, and on_nv
\* unspecified or some requested subsystem without exactly one catalog match.
OptimalUnresolved ==
    /\ PiDone /\ call.env_type = "optimal" /\ call.pi_x # 0
    /\ \/ call.on_nv = NoneNv
       \/ \E nv \in Range(call.on_nv.v) : Matches(nv, call.pi_x) # 1

\* no_amps_2_idle is set and every amplitude is zero.
PlaceholderCase ==
    call.no_amps_2_idle /\ \A k \in DOMAIN call.mw_amps : call.mw_amps[k] = 0

MatchingEntries(nv, pix) ==
    {k \in DOMAIN optimal_pulses :
        optimal_pulses[k].on_nv = nv /\ optimal_pulses[k].pi_x = pix}

\* C11: get_oc_pulse(on_nv, pix) returns exactly the catalog entries whose
\* target subsystem and rotation fraction both equal the requested values:
\* every such entry, once each, and no entry that differs in either field.
C11_ExactMatch ==
    (pc = "returned" /\ call.op = "get_oc_pulse") =>
        /\ ret.kind = "ok"
        /\ \A i \in DOMAIN ret.val :
              ret.val[i].on_nv = call.on_nv /\ ret.val[i].pi_x = call.pix
        /\ Range(ret.val) = {optimal_pulses[k] : k \in MatchingEntries(call.on_nv, call.pix)}
        /\ Len(ret.val) = Cardinality(MatchingEntries(call.on_nv, call.pix))

\* C11 witness: with entries (1, 1) and (2, 1) in the catalog, the lookup of
\* (1, 1) has returned the first entry only.
C11_Witness ==
    /\ pc = "returned" /\ call.op = "get_oc_pulse" /\ call.on_nv = 1 /\ call.pix = 2
    /\ Cardinality(MatchingEntries(1, 2)) = 1 /\ Cardinality(MatchingEntries(2, 2)) = 1
    /\ Len(ret.val) = 1 /\ ret.val[1].on_nv = 1

\* The catalog has been loaded from the listing call.fnames.
Loaded == pc = "loaded" /\ call.op = "_init_optimal_control"

\* The basename of an in-phase file with the marker and the extension
\* stripped.
StrippedName(f) ==
    LET no_quad == SelectSeq(f, LAMBDA t : t # str_i)
    IN  IF Len(no_quad) >= 2 /\ no_quad[Len(no_quad)] \in Extensions
        THEN SubSeq(no_quad, 1, Len(no_quad) - 1)
        ELSE no_quad

\* The quadrature candidates of the in-phase file f: the other files of the
\* listing whose name contains the stripped name of f.
Candidates(f) ==
    {g \in Range(call.fnames) : g # f /\ Contains(g, StrippedName(f))}

RegisteredFor(f) == {k \in DOMAIN optimal_pulses : optimal_pulses[k].file_i = f}

DrivenFreqs ==
    Mask(call.mw_freqs, [k \in DOMAIN call.mw_amps |-> call.mw_amps[k] # 0])

\* get_pi_element has returned from its rectangular path: rectangle was
\* requested and the placeholder policy does not apply.
RectangularDone ==
    /\ PiDone /\ call.pi_x # 0
    /\ call.env_type = "rectangle" /\ ~PlaceholderCase

\* In rectangular mode the partitioner gets the nonzero-amplitude lines only,
\* and nothing is returned when there is none and no_amps_2_idle is off.
OnlyDrivenLines ==
    RectangularDone =>
        /\ ret.kind = "ok"
        /\ \A i \in DOMAIN ret.val :
              /\ ret.val[i].kind = "mw"
              /\ ret.val[i].freqs = DrivenFreqs
              /\ Len(ret.val[i].amps) = Len(DrivenFreqs)
        /\ (\A k \in DOMAIN call.mw_amps : call.mw_amps[k] = 0) => ret.val = <<>>

\* C26 as stated: in rectangular mode only the lines of nonzero amplitude
\* reach the partitioner; with every amplitude zero and a nonzero fraction,
\* no_amps_2_idle=False gives the empty list and no_amps_2_idle=True gives,
\* whatever the envelope mode, a non-empty rectangular element list in
\* which every line carries the placeholder amplitude.
C26_AsStated ==
    /\ OnlyDrivenLines
    /\ (PiDone /\ call.pi_x # 0 /\ PlaceholderCase) =>
          /\ ret.kind = "ok" /\ ret.val # <<>>
          /\ \A i \in DOMAIN ret.val :
                /\ ret.val[i].kind = "mw"
                /\ ret.val[i].amps = [k \in DOMAIN call.mw_amps |-> PlaceholderAmp]

\* C26 amended: as stated, except that under the placeholder policy the list
\* is what the partitioner makes of all lines with the placeholder
\* amplitude: every element has one amplitude per line, each the placeholder
\* or 0; if xphase is a number, the first element carries the placeholder on
\* every line of positive rabi period and later elements switch the shorter
\* lines off; if xphase is nan every amplitude is 0.
C26_RectangularChannels ==
    /\ OnlyDrivenLines
    /\ (PiDone /\ call.pi_x # 0 /\ PlaceholderCase) =>
          /\ ret.kind = "ok" /\ ret.val # <<>>
          /\ \A i \in DOMAIN ret.val :
                /\ ret.val[i].kind = "mw"
                /\ ret.val[i].freqs = call.mw_freqs
                /\ \A k \in DOMAIN call.mw_amps :
                      ret.val[i].amps[k] =
                          IF call.xphase = "nan" THEN 0
                          ELSE IF 4 * SeqSum([j \in 1..(i - 1) |-> ret.val[j].init_length_s])
                                     < call.pi_x * call.rabi_periods[k]
                          THEN PlaceholderAmp ELSE 0

\* C26 witness: optimal mode was requested with two lines of amplitude 0 and
\* rabi periods 8 and 16 and no_amps_2_idle on; two rectangular elements are
\* returned, the second with the first line switched off.
C26_Witness ==
    /\ PiDone /\ call.pi_x = 2 /\ PlaceholderCase
    /\ call.env_type = "optimal" /\ call.xphase = "0"
    /\ call.rabi_periods = <<8, 16>>
    /\ Len(ret.val) = 2
    /\ ret.val[2].amps = <<0, PlaceholderAmp>>

(***************************************************************************)
(* Specification SpecDeer: calls of generate_deer_dd_tau                   *)
(***************************************************************************)
MaxPoints == 3                \* num_of_points
MaxOrder == 2                 \* dd_order

\* DDMethods.SE and DDMethods.XY4: suborder and phases.
DDTypes == {[suborder |-> 1, phases |-> <<"0">>],
            [suborder |-> 4, phases |-> <<"0", "90", "0", "90">>]}

InitDeer ==
    /\ pc = "called"
    /\ \E tau1 \in {8, 12, 16, 24}, tau_start \in {-8, 0, 8}, tau_step \in {-4, 4},
          num_of_points \in 1..MaxPoints, rabi_period \in {8, 16},
          microwave_amplitude \in {0, 10}, ampl \in {0, 20}, end_pix_on_2 \in {0, 2},
          dd_type \in DDTypes, dd_order \in 1..MaxOrder,
          nv_order \in {<<1, 2>>, <<2, 1>>}, alternating \in BOOLEAN, no_laser \in BOOLEAN,
          sync_channel \in {"", "d_ch1"} :
          call = [op |-> "generate_deer_dd_tau", tau1 |-> tau1, tau_start |-> tau_start,
                  tau_step |-> tau_step, num_of_points |-> num_of_points,
                  rabi_period |-> rabi_period, rabi_period_mw_2 |-> <<8>>,
                  microwave_amplitude |-> microwave_amplitude, ampl_mw_2 |-> <<ampl>>,
                  dd_type |-> dd_type, dd_order |-> dd_order,
                  init_pix_on_1 |-> 0, init_pix_on_2 |-> 0, end_pix_on_2 |-> end_pix_on_2,
                  nv_order |-> nv_order, alternating |-> alternating, no_laser |-> no_laser,
                  sync_channel |-> sync_channel]
    /\ ret = NoRet
    /\ log = <<>>
    /\ optimal_pulses = <<>>
    /\ ParametersUntouched
    /\ ManagerEmpty
    /\ ScannerIdle

\* One call of generate_deer_dd_tau.
GenerateDeerDdTau ==
    /\ pc = "called"
    /\ call.op = "generate_deer_dd_tau"
    /\ ret' = generate_deer_dd_tau(call)
    /\ pc' = "returned"
    /\ UNCHANGED <<call, log, optimal_pulses>>
    /\ UNCHANGED <<override_vars, manager_vars, scanner_vars>>

NextDeer == GenerateDeerDdTau

SpecDeer == InitDeer /\ [][NextDeer]_vars

\* C3 as stated: no block generate_deer_dd_tau returns contains an idle
\* element whose duration is negative at a sweep step 0..num_of_points-1.
C3_AsStated ==
    (pc = "returned" /\ call.op = "generate_deer_dd_tau" /\ ret.kind = "ok") =>
        \A k \in DOMAIN ret.val.dd_block : \A step \in 0..(call.num_of_points - 1) :
            ret.val.dd_block[k].kind = "idle"
                => ret.val.dd_block[k].init_length_s
                   + step * ret.val.dd_block[k].increment_s >= 0

(***************************************************************************)
(* Specification SpecRecipes: calls of the recipes generate_deer_dd_tau    *)
(* and generate_ent_create_bell                                            *)
(***************************************************************************)
InitBell ==
    /\ pc = "called"
    /\ \E tau_start \in {16, 32}, tau_step \in {0, 4}, num_of_points \in 1..MaxPoints,
          rabi_period \in {8, 16}, microwave_amplitude \in {0, 10}, ampl \in {0, 20},
          dd_type \in DDTypes, dd_order \in 1..MaxOrder,
          alternating \in BOOLEAN, no_laser \in BOOLEAN,
          microwave_channel \in {<<"a", "_ch1">>, <<"d", "_ch1">>},
          sync_channel \in {"", "d_ch1"} :
          call = [op |-> "generate_ent_create_bell", tau_start |-> tau_start,
                  tau_step |-> tau_step, num_of_points |-> num_of_points,
                  rabi_period |-> rabi_period, rabi_period_mw_2 |-> <<8>>,
                  microwave_amplitude |-> microwave_amplitude, ampl_mw_2 |-> <<ampl>>,
                  dd_type |-> dd_type, dd_order |-> dd_order,
                  alternating |-> alternating, no_laser |-> no_laser,
                  microwave_channel |-> microwave_channel, sync_channel |-> sync_channel]
    /\ ret = NoRet
    /\ log = <<>>
    /\ optimal_pulses = <<>>
    /\ ParametersUntouched
    /\ ManagerEmpty
    /\ ScannerIdle

\* One call of generate_ent_create_bell.
GenerateEntCreateBell ==
    /\ pc = "called"
    /\ call.op = "generate_ent_create_bell"
    /\ ret' = generate_ent_create_bell(call)
    /\ pc' = "returned"
    /\ UNCHANGED <<call, log, optimal_pulses>>
    /\ UNCHANGED <<override_vars, manager_vars, scanner_vars>>

InitRecipes == InitDeer \/ InitBell

NextRecipes == GenerateDeerDdTau \/ GenerateEntCreateBell

SpecRecipes == InitRecipes /\ [][NextRecipes]_vars

\* A recipe has returned its block and ensemble.
RecipeReturned ==
    /\ pc = "returned"
    /\ call.op \in {"generate_deer_dd_tau", "generate_ent_create_bell"}
    /\ ret.kind = "ok"

\* The number of elements of the given kind in the returned main block.
CountKind(kind) ==
    Cardinality({k \in DOMAIN ret.val.dd_block : ret.val.dd_block[k].kind = kind})

\* C14 as stated: a recipe called with no_laser=True appends neither the
\* synchronization trigger nor any laser or delay readout element (and a
\* recipe appends the trigger at most once per ensemble).
C14_AsStated ==
    (RecipeReturned /\ call.no_laser) =>
        ~ret.val.trigger /\ CountKind("laser") = 0 /\ CountKind("delay") = 0

\* C15 as stated: number_of_lasers equals the number of readout-laser
\* elements in the main block multiplied by (its repetition count + 1).
C15_AsStated ==
    RecipeReturned =>
        ret.val.number_of_lasers = CountKind("laser") * (ret.val.repetitions + 1)

(***************************************************************************)
(* Gate recipes generate_c2not1 / generate_c1not2 and the override of the  *)
(* shared generation parameters                                            *)
(***************************************************************************)
\* The rabi_period setter: generation_parameters with 'rabi_period' updated.
set_rabi_period_Ignored(gen_params, t_rabi) == gen_params

set_rabi_period(gen_params, t_rabi) == [gen_params EXCEPT !.rabi_period = t_rabi]

\* generate_deer_dd_tau_nvision on the shared parameters gen_params.  The
\* generation method 'DEER_DD_tau' it hands over to is not part of this
\* module; what it is given, and the rabi_period it finds in the shared
\* parameters, is the value returned here.
generate_deer_dd_tau_nvision(gen_params, a) ==
    LET n2 == Some(2)
        rabi_periods == create_param_array(gen_params.rabi_period, a.rabi_period_mw_2,
                                           n2, None, a.order_nvs)
        amplitudes == create_param_array(gen_params.microwave_amplitude, a.ampl_mw_2,
                                         n2, None, a.order_nvs)
        mw_freqs == create_param_array(gen_params.microwave_frequency, <<2>>,
                                       n2, None, a.order_nvs)
        failed == {r \in {rabi_periods, amplitudes, mw_freqs} : r.kind # "ok"}
    IN  IF failed # {} THEN Raise((CHOOSE r \in failed : TRUE).kind)
        ELSE IF Len(rabi_periods.val) # 2 \/ Len(amplitudes.val) # 2 \/ Len(mw_freqs.val) # 2
             THEN Raise("ValueError")
        ELSE Ok([rabi_period |-> gen_params.rabi_period,
                 rabi_period2 |-> rabi_periods.val[2],
                 mw_amp2 |-> amplitudes.val[2], mw_freq2 |-> mw_freqs.val[2]])

\* The arguments generate_c2not1 hands to generate_deer_dd_tau in the
\* rectangle/optimal branch, with the generation parameters that recipe reads.
DeerArguments(gen_params, a) ==
    [op |-> "generate_deer_dd_tau", tau1 |-> a.tau_dd_fix, tau_start |-> a.tau_start,
     tau_step |-> a.tau_step, num_of_points |-> a.num_of_points,
     rabi_period |-> gen_params.rabi_period, rabi_period_mw_2 |-> a.rabi_period_mw_2,
     microwave_amplitude |-> gen_params.microwave_amplitude, ampl_mw_2 |-> a.ampl_mw_2,
     dd_type |-> a.dd_type, dd_order |-> a.dd_order,
     init_pix_on_1 |-> 0, init_pix_on_2 |-> 0, end_pix_on_2 |-> 2,
     nv_order |-> a.order_nvs, alternating |-> a.alternating, no_laser |-> a.no_laser,
     sync_channel |-> ""]

(***************************************************************************)
(* Specification SpecOverride: callers of generate_c2not1 on one engine    *)
(***************************************************************************)
MaxCallers == 2               \* callers sharing the engine instance

Callers == 1..MaxCallers

\* What caller p may call generate_c2not1 with: the envelope and the
\* 'rabi_period' of kwargs_dict (None if it has none; each caller has its own
\* override value), and ampl_mw_2 with one second-line amplitude or with the
\* three of the default argument.
C2not1Arguments(p) ==
    {[env_type |-> "rectangle", rabi_period |-> None, ampl_mw_2 |-> <<20>>],
     [env_type |-> "sin_n", rabi_period |-> None, ampl_mw_2 |-> <<20>>],
     [env_type |-> "sin_n", rabi_period |-> Some(16 + 8 * p), ampl_mw_2 |-> <<20>>],
     [env_type |-> "sin_n", rabi_period |-> Some(16 + 8 * p), ampl_mw_2 |-> <<20, 0, 0>>]}

InitOverride ==
    /\ pc = [p \in Callers |-> "idle"]
    /\ call = [p \in Callers |-> NoCall]
    /\ ret = [p \in Callers |-> NoRet]
    /\ log = <<>>
    /\ optimal_pulses = <<>>
    /\ ParametersUntouched
    /\ ManagerEmpty
    /\ ScannerIdle

\* Caller p enters generate_c2not1: lines 689-694, which read kwargs_dict
\* and, if it has no 'rabi_period', self.rabi_period.
C2not1Enter(p) ==
    /\ pc[p] = "idle"
    /\ \E k \in C2not1Arguments(p), order_nvs \in {<<1, 2>>} :
          call' = [call EXCEPT ![p] =
                      [op |-> "generate_c2not1", env_type |-> k.env_type,
                       kwargs_rabi_period |-> k.rabi_period,
                       rabi_period_1 |-> IF k.rabi_period = None
                                         THEN generation_parameters.rabi_period
                                         ELSE k.rabi_period[1],
                       tau_dd_fix |-> 24, tau_start |-> 0, tau_step |-> 4,
                       num_of_points |-> 1, rabi_period_mw_2 |-> <<8>>,
                       ampl_mw_2 |-> k.ampl_mw_2,
                       dd_type |-> [suborder |-> 1, phases |-> <<"0">>], dd_order |-> 1,
                       order_nvs |-> order_nvs, alternating |-> FALSE, no_laser |-> TRUE]]
    /\ pc' = [pc EXCEPT ![p] = "entered"]
    /\ log' = Append(log, <<p, "begin">>)
    /\ UNCHANGED <<ret, optimal_pulses, override_vars, manager_vars, scanner_vars>>

\* The rectangle/optimal branch: the call returns what generate_deer_dd_tau
\* returns or raises, and touches no shared parameter.
C2not1Plain(p) ==
    /\ pc[p] = "entered"
    /\ call[p].env_type \in {"rectangle", "optimal"}
    /\ ret' = [ret EXCEPT ![p] =
                  generate_deer_dd_tau(DeerArguments(generation_parameters, call[p]))]
    /\ pc' = [pc EXCEPT ![p] = "ended"]
    /\ log' = Append(log, <<p, "end">>)
    /\ UNCHANGED <<call, optimal_pulses, override_vars, manager_vars, scanner_vars>>

\* Lines 720-721: the shared parameters are copied to the save attributes.
C2not1Save(p) ==
    /\ pc[p] = "entered"
    /\ call[p].env_type \notin {"rectangle", "optimal"}
    /\ save' = generation_parameters
    /\ pc' = [pc EXCEPT ![p] = "saved"]
    /\ UNCHANGED <<call, ret, log, optimal_pulses, generation_parameters, manager_vars, scanner_vars>>

\* Line 722: self.rabi_period = rabi_period_1
C2not1Override(p) ==
    /\ pc[p] = "saved"
    /\ generation_parameters' = set_rabi_period(generation_parameters, call[p].rabi_period_1)
    /\ pc' = [pc EXCEPT ![p] = "overridden"]
    /\ UNCHANGED <<call, ret, log, optimal_pulses, save, manager_vars, scanner_vars>>

\* Lines 724-730: the nested generation.  If it raises, so does
\* generate_c2not1, at once.
C2not1Nested(p) ==
    /\ pc[p] = "overridden"
    /\ LET r == generate_deer_dd_tau_nvision(generation_parameters, call[p])
       IN  /\ ret' = [ret EXCEPT ![p] = r]
           /\ pc' = [pc EXCEPT ![p] = IF r.kind = "ok" THEN "generated" ELSE "ended"]
           /\ log' = IF r.kind = "ok" THEN log ELSE Append(log, <<p, "end">>)
    /\ UNCHANGED <<call, optimal_pulses, override_vars, manager_vars, scanner_vars>>

\* Line 732: self.rabi_period = self.save_rabi_period, then the return.
C2not1Restore(p) ==
    /\ pc[p] = "generated"
    /\ generation_parameters' = set_rabi_period(generation_parameters, save.rabi_period)
    /\ pc' = [pc EXCEPT ![p] = "ended"]
    /\ log' = Append(log, <<p, "end">>)
    /\ UNCHANGED <<call, ret, optimal_pulses, save, manager_vars, scanner_vars>>

NextOverride ==
    \E p \in Callers :
        \/ C2not1Enter(p)
        \/ C2not1Plain(p)
        \/ C2not1Save(p)
        \/ C2not1Override(p)
        \/ C2not1Nested(p)
        \/ C2not1Restore(p)

SpecOverride == InitOverride /\ [][NextOverride]_vars

\* The position in log of the event <<p, e>>; Len(log) + 1 if it has not
\* happened.
EventAt(p, e) ==
    IF \E i \in DOMAIN log : log[i] = <<p, e>>
    THEN CHOOSE i \in DOMAIN log : log[i] = <<p, e>>
    ELSE Len(log) + 1

\* The calls of p and q overlap in time.
Interleaved(p, q) ==
    /\ p # q
    /\ EventAt(p, "begin") <= Len(log) /\ EventAt(q, "begin") <= Len(log)
    /\ EventAt(p, "begin") < EventAt(q, "end")
    /\ EventAt(q, "begin") < EventAt(p, "end")

\* Call p took the override branch and its nested generation has returned.
OverrideGenerated(p) ==
    /\ pc[p] \in {"generated", "ended"}
    /\ call[p].env_type \notin {"rectangle", "optimal"}
    /\ ret[p].kind = "ok"

\* C16: calls of generate_c2not1 that use the parameter override corrupt
\* each other's view of the shared parameters exactly by interleaving: a
\* nested generation that finds a rabi_period other than its own call's, and
\* a rabi_period that differs from the original after all calls have
\* returned, are both reachable, and each occurs only when two calls overlap.
C16_SharedOverride ==
    /\ \A p \in Callers :
          (OverrideGenerated(p) /\ ret[p].val.rabi_period # call[p].rabi_period_1)
              => \E q \in Callers : Interleaved(p, q)
    /\ ((\A p \in Callers : pc[p] = "ended" /\ ret[p].kind = "ok")
         /\ generation_parameters.rabi_period # DefaultParameters.rabi_period)
            => \E p, q \in Callers : Interleaved(p, q)

\* C16 witness: two override calls have returned; the nested generation of
\* the first found the rabi_period of the second, and rabi_period is no
\* longer the original.
C16_Witness ==
    /\ \A p \in Callers : pc[p] = "ended"
    /\ OverrideGenerated(1) /\ OverrideGenerated(2)
    /\ call[1].kwargs_rabi_period = Some(24) /\ call[2].kwargs_rabi_period = Some(32)
    /\ ret[1].val.rabi_period = 32
    /\ generation_parameters.rabi_period # DefaultParameters.rabi_period

\* C17 as stated: after a call of generate_c2not1 has ended, by returning or
\* by raising, with no other call made, the shared rabi_period,
\* microwave_amplitude and microwave_frequency are what they were before.
C17_AsStated ==
    \A p \in Callers :
        (pc[p] = "ended" /\ \A q \in Callers \ {p} : pc[q] = "idle")
            => generation_parameters = DefaultParameters

(***************************************************************************)
(* ThreadManager (core/threadmanager.py).                                  *)
(*                                                                         *)
(* The registry is the pair of class attributes _threads and               *)
(* _thread_names, shared by every instance.  A QThread object is a number  *)
(* t, the index of its record in qthreads.  Every method body is a         *)
(* with-block on the recursive mutex _lock; the model takes the lock, reads *)
(* and writes the two lists in separate steps as the code does, and gives  *)
(* the lock back, so that the steps of different callers interleave        *)
(* wherever the lock lets them.  A caller blocked on the lock has done     *)
(* nothing yet, so entering a method and taking its lock is one step.      *)
(* The callers are the client threads and the event loop that runs the     *)
(* queued finished-callbacks.                                              *)
(***************************************************************************)
MaxClients == 2
MaxThreads == 2
MaxRegistrations == 1

Clients == 1..MaxClients
EventLoop == MaxClients + 1
Procs == 1..(MaxClients + 1)
ThreadNames == {"a", "b"}

\* QtCore.QThread() followed by setObjectName(name): not started, not asked
\* to quit, no slot connected to its finished signal.
QThread(name) ==
    [objectName |-> name, state |-> "new", quit |-> FALSE, connections |-> 0]

isRunning(t) == qthreads[t].state = "running"

\* RecursiveMutex: whoever holds the lock may take it again, anybody else
\* waits until it is free.
CanAcquire(c) == lock.holder \in {0, c}

Acquired(c) == [holder |-> c, count |-> lock.count + 1]

Released == IF lock.count <= 1 THEN Unlocked ELSE [lock EXCEPT !.count = @ - 1]

Registry == [threads |-> threads, thread_names |-> thread_names]

\* The call of a manager method: its arguments, the thread whose finished
\* signal made the call (0 if a client made it), the registry as it was when
\* the caller took the lock, and what the method has found out so far.
ManagerCall(op, name, thread, sender) ==
    [op |-> op, name |-> name, thread |-> thread, sender |-> sender,
     index |-> 0, running |-> FALSE, before |-> Registry]

\* name in self._thread_names
NameRegistered_Never(name) == FALSE

NameRegistered(name) == name \in Range(thread_names)

\* self._thread_names.index(name): the first position that holds name.
NameIndex(names, name) ==
    CHOOSE i \in DOMAIN names :
        names[i] = name /\ \A j \in 1..(i - 1) : names[j] # name

\* del list[index]
Delete(s, index) == [i \in 1..(Len(s) - 1) |-> IF i < index THEN s[i] ELSE s[i + 1]]

\* Python raises IndexError where a list is read or cut at a position it
\* does not have.
HasIndex(s, index) == index \in DOMAIN s

get_thread_by_name(name) ==
    IF NameRegistered(name)
    THEN Some(threads[NameIndex(thread_names, name)])
    ELSE None

\* The slots that run when thread t emits finished: one queued call of
\* unregister_thread(name) for every connection made by register_thread.
FinishedCallbacks(t) ==
    [i \in 1..qthreads[t].connections |-> [name |-> qthreads[t].objectName, sender |-> t]]

InitThreads ==
    /\ pc = [c \in Procs |-> "idle"]
    /\ call = [c \in Procs |-> NoCall]
    /\ ret = [c \in Procs |-> NoRet]
    /\ log = <<>>
    /\ optimal_pulses = <<>>
    /\ ParametersUntouched
    /\ ManagerEmpty
    /\ ScannerIdle

Goto(c, label) == pc' = [pc EXCEPT ![c] = label]

ManagerFrame == UNCHANGED <<log, optimal_pulses, override_vars, scanner_vars>>

\* A client constructs a QThread of its own and names it.
ConstructQThread(name) ==
    /\ Len(qthreads) < MaxThreads
    /\ qthreads' = Append(qthreads, QThread(name))
    /\ UNCHANGED <<pc, call, ret, threads, thread_names, lock, events>>
    /\ ManagerFrame

\* thread.start()
StartThread(t) ==
    /\ qthreads[t].state = "new"
    /\ qthreads' = [qthreads EXCEPT ![t].state = "running"]
    /\ UNCHANGED <<pc, call, ret, threads, thread_names, lock, events>>
    /\ ManagerFrame

\* The thread ends: it emits finished, which queues its connected slots for
\* the event loop, and isRunning() is False from now on.  A thread is not
\* started a second time, so its quit request and its connections have
\* done all they can do and are no longer kept.
Finish(t) ==
    /\ qthreads' = [qthreads EXCEPT ![t] =
                        [@ EXCEPT !.state = "finished", !.quit = FALSE,
                                  !.connections = 0]]
    /\ events' = events \o FinishedCallbacks(t)
    /\ UNCHANGED <<pc, call, ret, threads, thread_names, lock>>
    /\ ManagerFrame

\* run() of the thread returns by itself.
RunReturns(t) ==
    /\ t \in DOMAIN qthreads
    /\ isRunning(t) /\ ~qthreads[t].quit
    /\ Finish(t)

\* quit() was called on the running thread: its event loop returns.
QuitTakesEffect(t) ==
    /\ t \in DOMAIN qthreads
    /\ isRunning(t) /\ qthreads[t].quit
    /\ Finish(t)

\* Entering a method body that is not a with-block on the lock.
Enter_WithoutLock(c, op, name, thread, sender, label) ==
    /\ pc[c] = "idle"
    /\ lock' = Acquired(c)
    /\ call' = [call EXCEPT ![c] = ManagerCall(op, name, thread, sender)]
    /\ ret' = [ret EXCEPT ![c] = NoRet]
    /\ Goto(c, label)

\* Entering the with-block of a method.
Enter(c, op, name, thread, sender, label) ==
    /\ pc[c] = "idle"
    /\ CanAcquire(c)
    /\ lock' = Acquired(c)
    /\ call' = [call EXCEPT ![c] = ManagerCall(op, name, thread, sender)]
    /\ ret' = [ret EXCEPT ![c] = NoRet]
    /\ Goto(c, label)

\* ---- get_new_thread(name) ----
GetNewThreadCall(c, name) ==
    /\ c \in Clients
    /\ Len(qthreads) < MaxThreads
    /\ Enter(c, "get_new_thread", name, 0, 0, "gnt_check")
    /\ UNCHANGED <<threads, thread_names, qthreads, events>>
    /\ ManagerFrame

GetNewThreadCheck(c) ==
    /\ pc[c] = "gnt_check"
    /\ IF NameRegistered(call[c].name)
       THEN /\ ret' = [ret EXCEPT ![c] = Ok(None)]
            /\ Goto(c, "unlock")
            /\ UNCHANGED <<call, qthreads>>
       ELSE /\ qthreads' = Append(qthreads, QThread(call[c].name))
            /\ call' = [call EXCEPT ![c].thread = Len(qthreads) + 1]
            /\ Goto(c, "reg_lock")
            /\ UNCHANGED ret
    /\ UNCHANGED <<threads, thread_names, lock, events>>
    /\ ManagerFrame

\* ---- register_thread(thread) ----
RegisterThreadCall(c, t) ==
    /\ c \in Clients
    /\ NameRegistered(qthreads[t].objectName)
           \/ qthreads[t].connections < MaxRegistrations
    /\ Enter(c, "register_thread", qthreads[t].objectName, t, 0, "reg_check")
    /\ UNCHANGED <<threads, thread_names, qthreads, events>>
    /\ ManagerFrame

\* register_thread called by get_new_thread: the caller takes the lock a
\* second time.
RegisterThreadNested(c) ==
    /\ pc[c] = "reg_lock"
    /\ CanAcquire(c)
    /\ lock' = Acquired(c)
    /\ Goto(c, "reg_check")
    /\ UNCHANGED <<call, ret, threads, thread_names, qthreads, events>>
    /\ ManagerFrame

RegisterThreadCheck(c) ==
    /\ pc[c] = "reg_check"
    /\ IF NameRegistered(call[c].name)
       THEN /\ ret' = [ret EXCEPT ![c] =
                          IF ~HasIndex(threads, NameIndex(thread_names, call[c].name))
                          THEN Raise("IndexError")
                          ELSE IF get_thread_by_name(call[c].name) = Some(call[c].thread)
                          THEN Ok(None)
                          ELSE Raise("Exception")]
            /\ Goto(c, "reg_unlock")
       ELSE /\ Goto(c, "reg_append_thread")
            /\ UNCHANGED ret
    /\ UNCHANGED <<call, manager_vars, scanner_vars>>
    /\ ManagerFrame

\* self._threads.append(thread)
RegisterThreadAppendThread(c) ==
    /\ pc[c] = "reg_append_thread"
    /\ threads' = Append(threads, call[c].thread)
    /\ Goto(c, "reg_append_name")
    /\ UNCHANGED <<call, ret, thread_names, lock, qthreads, events>>
    /\ ManagerFrame

\* self._thread_names.append(name), then thread.finished.connect(...)
RegisterThreadAppendName(c) ==
    /\ pc[c] = "reg_append_name"
    /\ thread_names' = Append(thread_names, call[c].name)
    /\ qthreads' = [qthreads EXCEPT ![call[c].thread].connections =
                        IF qthreads[call[c].thread].state = "finished"
                        THEN @ ELSE @ + 1]
    /\ ret' = [ret EXCEPT ![c] = Ok(None)]
    /\ Goto(c, "reg_unlock")
    /\ UNCHANGED <<call, threads, lock, events>>
    /\ ManagerFrame

\* The with-block of register_thread ends.  Called from get_new_thread, the
\* caller is still inside the with-block of get_new_thread and goes on to
\* return the thread; called by a client, the call is over.
RegisterThreadUnlock(c) ==
    /\ pc[c] = "reg_unlock"
    /\ lock' = Released
    /\ IF call[c].op = "get_new_thread"
       THEN /\ ret' = [ret EXCEPT ![c] =
                          IF @.kind = "ok" THEN Ok(Some(call[c].thread)) ELSE @]
            /\ Goto(c, "unlock")
            /\ UNCHANGED call
       ELSE /\ Goto(c, "idle")
            /\ call' = [call EXCEPT ![c] = NoCall]
            /\ ret' = [ret EXCEPT ![c] = NoRet]
    /\ UNCHANGED <<threads, thread_names, qthreads, events>>
    /\ ManagerFrame

\* ---- unregister_thread(name) ----
UnregisterThreadCall(c, name) ==
    /\ c \in Clients
    /\ Enter(c, "unregister_thread", name, 0, 0, "unreg_check")
    /\ UNCHANGED <<threads, thread_names, qthreads, events>>
    /\ ManagerFrame

\* The event loop runs the next queued finished-callback, a call of
\* partial(self.unregister_thread, name=name).
DispatchFinished ==
    /\ events # <<>>
    /\ events' = Tail(events)
    /\ Enter(EventLoop, "unregister_thread", Head(events).name, 0, Head(events).sender,
             "unreg_check")
    /\ UNCHANGED <<threads, thread_names, qthreads>>
    /\ ManagerFrame

\* quit_thread(name), called with the lock held: thread.quit() on the
\* registered thread of that name.
quit_thread(name) ==
    IF ~NameRegistered(name) \/ ~HasIndex(threads, NameIndex(thread_names, name))
    THEN qthreads
    ELSE [qthreads EXCEPT ![threads[NameIndex(thread_names, name)]].quit = TRUE]

UnregisterThreadCheck(c) ==
    /\ pc[c] = "unreg_check"
    /\ IF ~NameRegistered(call[c].name)
       THEN /\ ret' = [ret EXCEPT ![c] = Ok(None)]
            /\ Goto(c, "unlock")
            /\ UNCHANGED <<call, qthreads>>
       ELSE LET index == NameIndex(thread_names, call[c].name) IN
            IF ~HasIndex(threads, index)
            THEN /\ ret' = [ret EXCEPT ![c] = Raise("IndexError")]
                 /\ Goto(c, "unlock")
                 /\ UNCHANGED <<call, qthreads>>
            ELSE IF isRunning(threads[index])
            THEN /\ qthreads' = quit_thread(call[c].name)
                 /\ call' = [call EXCEPT ![c].thread = threads[index],
                                         ![c].index = index, ![c].running = TRUE]
                 /\ ret' = [ret EXCEPT ![c] = Ok(None)]
                 /\ Goto(c, "unlock")
            ELSE /\ call' = [call EXCEPT ![c].thread = threads[index],
                                         ![c].index = index]
                 /\ Goto(c, "unreg_del_thread")
                 /\ UNCHANGED <<ret, qthreads>>
    /\ UNCHANGED <<threads, thread_names, lock, events>>
    /\ ManagerFrame

\* del self._threads[index]
UnregisterThreadDelThread(c) ==
    /\ pc[c] = "unreg_del_thread"
    /\ IF HasIndex(threads, call[c].index)
       THEN /\ threads' = Delete(threads, call[c].index)
            /\ Goto(c, "unreg_del_name")
            /\ UNCHANGED ret
       ELSE /\ ret' = [ret EXCEPT ![c] = Raise("IndexError")]
            /\ Goto(c, "unlock")
            /\ UNCHANGED threads
    /\ UNCHANGED <<call, thread_names, lock, qthreads, events>>
    /\ ManagerFrame

\* del self._thread_names[index]
UnregisterThreadDelName(c) ==
    /\ pc[c] = "unreg_del_name"
    /\ IF HasIndex(thread_names, call[c].index)
       THEN /\ thread_names' = Delete(thread_names, call[c].index)
            /\ ret' = [ret EXCEPT ![c] = Ok(None)]
       ELSE /\ ret' = [ret EXCEPT ![c] = Raise("IndexError")]
            /\ UNCHANGED thread_names
    /\ Goto(c, "unlock")
    /\ UNCHANGED <<call, threads, lock, qthreads, events>>
    /\ ManagerFrame

\* The with-block of get_new_thread or of unregister_thread ends and the
\* call is over.
Unlock(c) ==
    /\ pc[c] = "unlock"
    /\ lock' = Released
    /\ Goto(c, "idle")
    /\ call' = [call EXCEPT ![c] = NoCall]
    /\ ret' = [ret EXCEPT ![c] = NoRet]
    /\ UNCHANGED <<threads, thread_names, qthreads, events>>
    /\ ManagerFrame

ClientStep(c) ==
    \/ \E name \in ThreadNames : GetNewThreadCall(c, name)
    \/ \E t \in DOMAIN qthreads : RegisterThreadCall(c, t)
    \/ \E name \in ThreadNames : UnregisterThreadCall(c, name)

ManagerStep(c) ==
    \/ GetNewThreadCheck(c)
    \/ RegisterThreadNested(c)
    \/ RegisterThreadCheck(c)
    \/ RegisterThreadAppendThread(c)
    \/ RegisterThreadAppendName(c)
    \/ RegisterThreadUnlock(c)
    \/ UnregisterThreadCheck(c)
    \/ UnregisterThreadDelThread(c)
    \/ UnregisterThreadDelName(c)
    \/ Unlock(c)

ThreadStep ==
    \/ \E name \in ThreadNames : ConstructQThread(name)
    \/ \E t \in DOMAIN qthreads : StartThread(t)
    \/ \E t \in DOMAIN qthreads : RunReturns(t)
    \/ \E t \in DOMAIN qthreads : QuitTakesEffect(t)

NextThreads ==
    \/ \E c \in Clients : ClientStep(c)
    \/ \E c \in Procs : ManagerStep(c)
    \/ DispatchFinished
    \/ ThreadStep

SpecThreads == InitThreads /\ [][NextThreads]_vars

\* The scheduling the liveness of the manager rests on: a caller inside a
\* with-block goes on until it leaves it, a thread whose quit() was called
\* ends, and the event loop, which finds the lock free again and again,
\* gets it in the end and runs the next queued callback.
SpecThreadsFair ==
    /\ SpecThreads
    /\ \A c \in Procs : WF_vars(ManagerStep(c))
    /\ \A t \in 1..MaxThreads : WF_vars(QuitTakesEffect(t))
    /\ SF_vars(DispatchFinished)

Registered(t) == t \in Range(threads)

\* Equal length, entry i of one list belongs to entry i of the other, and no
\* name twice.
RegistryConsistent ==
    /\ Len(threads) = Len(thread_names)
    /\ \A i \in DOMAIN threads : thread_names[i] = qthreads[threads[i]].objectName
    /\ \A i, j \in DOMAIN thread_names : thread_names[i] = thread_names[j] => i = j

\* C18: under every interleaving of get_new_thread, register_thread,
\* unregister_thread and finished-callbacks issued by several callers, the
\* registry is consistent whenever no caller is inside a method: _threads
\* and _thread_names have equal length, entry i of _thread_names is the
\* objectName of entry i of _threads, and no name is registered twice.
C18_RegistryConsistent == lock = Unlocked => RegistryConsistent

\* C18 witness: the lock is free and the registry holds two threads, put
\* there in the order "b", "a" by different calls; the second thread was
\* running when unregister_thread was called for it, and the first has
\* finished.
C18_Witness ==
    /\ lock = Unlocked
    /\ Len(qthreads) = 2
    /\ threads = <<2, 1>> /\ thread_names = <<"b", "a">>
    /\ qthreads[2].state = "running" /\ qthreads[2].quit
    /\ qthreads[1].state = "finished"

\* The registry a call found, with thread registered under name at its end.
WithEntry(before, thread, name) ==
    [threads |-> Append(before.threads, thread),
     thread_names |-> Append(before.thread_names, name)]

\* The registry a call found, without the entry of name.
WithoutEntry(before, name) ==
    [threads |-> Delete(before.threads, NameIndex(before.thread_names, name)),
     thread_names |-> Delete(before.thread_names, NameIndex(before.thread_names, name))]

\* The call of c has done its work and is about to leave its with-block.
AtEnd(c, op) ==
    /\ call[c].op = op
    /\ pc[c] = IF op = "register_thread" THEN "reg_unlock" ELSE "unlock"

\* C19: no name is registered twice, and a name clash never changes the
\* registry.  get_new_thread(name) returns None and leaves the registry as
\* it found it when name is registered, and otherwise returns a new thread
\* of that name, registered under it at the end of the registry.
\* register_thread of a thread whose name is registered leaves the registry
\* as it found it, raising Exception when the registered thread is another
\* one and returning None when it is the same.
C19_NameClash ==
    /\ lock = Unlocked =>
          \A i, j \in DOMAIN thread_names : thread_names[i] = thread_names[j] => i = j
    /\ \A c \in Procs :
          AtEnd(c, "get_new_thread") =>
              IF call[c].name \in Range(call[c].before.thread_names)
              THEN ret[c] = Ok(None) /\ Registry = call[c].before
              ELSE /\ ret[c] = Ok(Some(call[c].thread))
                   /\ call[c].thread \notin Range(call[c].before.threads)
                   /\ qthreads[call[c].thread].objectName = call[c].name
                   /\ Registry = WithEntry(call[c].before, call[c].thread, call[c].name)
    /\ \A c \in Procs :
          AtEnd(c, "register_thread") =>
              IF call[c].name \in Range(call[c].before.thread_names)
              THEN /\ Registry = call[c].before
                   /\ ret[c] =
                         IF call[c].before.threads[
                                NameIndex(call[c].before.thread_names, call[c].name)]
                                = call[c].thread
                         THEN Ok(None)
                         ELSE Raise("Exception")
              ELSE /\ ret[c] = Ok(None)
                   /\ Registry = WithEntry(call[c].before, call[c].thread, call[c].name)

\* C19 witness: register_thread of a thread whose name another thread is
\* registered under has raised, and the registry is as the call found it.
C19_Witness ==
    \E c \in Clients :
        /\ AtEnd(c, "register_thread")
        /\ ret[c] = Raise("Exception")
        /\ call[c].thread \notin Range(threads)
        /\ call[c].name \in Range(thread_names)
        /\ Registry = call[c].before

\* unregister_thread found the thread of its name not running: at the end of
\* the call the entry is gone and nothing else has changed.
RemovedAtOnce ==
    \A c \in Procs :
        (AtEnd(c, "unregister_thread") /\ call[c].thread # 0 /\ ~call[c].running)
            => /\ Registry = WithoutEntry(call[c].before, call[c].name)
               /\ ~Registered(call[c].thread)

\* unregister_thread found thread t of its name running: it has called
\* quit() on it and left the registry alone.
AskedToQuit(t) ==
    \E c \in Procs :
        /\ AtEnd(c, "unregister_thread")
        /\ call[c].thread = t
        /\ call[c].running

QuitNotRemoved ==
    \A c \in Procs :
        (AtEnd(c, "unregister_thread") /\ call[c].running)
            => /\ Registry = call[c].before
               /\ Registered(call[c].thread)
               /\ qthreads[call[c].thread].quit
                     \/ qthreads[call[c].thread].state = "finished"

Finished(t) == t \in DOMAIN qthreads /\ qthreads[t].state = "finished"

\* Thread t has finished, is registered, and a finished-callback for its
\* name waits in the event loop.
FinishedCallbackQueued(t) ==
    /\ Finished(t)
    /\ Registered(t)
    /\ \E e \in Range(events) : e.name = qthreads[t].objectName

\* What unregister_thread does by itself: a registered thread that is not
\* running is removed within the call; a running one is asked to quit, left
\* in the registry, and removed from it in the end.
UnregisterRemoves ==
    /\ [](RemovedAtOnce /\ QuitNotRemoved)
    /\ \A t \in 1..MaxThreads : AskedToQuit(t) ~> ~Registered(t)

\* C20 as stated: unregister_thread removes a registered thread that is not
\* running at once, asks a running one to quit, which is then removed in the
\* end, and no finished thread stays registered forever.
C20_AsStated ==
    /\ UnregisterRemoves
    /\ \A t \in 1..MaxThreads : (Finished(t) /\ Registered(t)) ~> ~Registered(t)

\* The part of C20 that holds: what unregister_thread does by itself, and
\* the removal in the end of every registered thread whose
\* finished-callback is queued.
C20_EventuallyRemoved ==
    /\ UnregisterRemoves
    /\ \A t \in 1..MaxThreads : FinishedCallbackQueued(t) ~> ~Registered(t)

\* C28 as stated: a finished-callback affects only the thread that emitted
\* finished: when the event loop runs the callback of thread A and
\* unregister_thread finds a thread registered under the name, to remove it
\* or to ask it to quit, that thread is A.
C28_AsStated ==
    (AtEnd(EventLoop, "unregister_thread") /\ call[EventLoop].thread # 0)
        => call[EventLoop].thread = call[EventLoop].sender

\* ---------------------------------------------------------------------
\* join_thread, and threads whose own code calls the manager
\* ---------------------------------------------------------------------

\* The code that runs inside thread t is a caller of its own.
Worker(t) == MaxClients + 1 + t
JoinProcs == 1..(MaxClients + 1 + MaxThreads)

\* The timeouts a caller of join_thread passes: none, or some milliseconds.
JoinTimes == {None, Some(1)}

InitJoin ==
    /\ pc = [c \in JoinProcs |-> "idle"]
    /\ call = [c \in JoinProcs |-> NoCall]
    /\ ret = [c \in JoinProcs |-> NoRet]
    /\ log = <<>>
    /\ optimal_pulses = <<>>
    /\ ParametersUntouched
    /\ ManagerEmpty
    /\ ScannerIdle

\* join_thread(name, time): name is a thread name (thread = 0) or a QThread.
JoinThreadCall(c, name, thread, time) ==
    /\ c \in Clients
    /\ pc[c] = "idle"
    /\ CanAcquire(c)
    /\ lock' = Acquired(c)
    /\ call' = [call EXCEPT ![c] =
                   [op |-> "join_thread", name |-> name, thread |-> thread,
                    time |-> time, isinstance |-> thread # 0]]
    /\ ret' = [ret EXCEPT ![c] = NoRet]
    /\ Goto(c, "join_lookup")
    /\ UNCHANGED <<threads, thread_names, qthreads, events>>
    /\ ManagerFrame

\* thread = name if it is a QThread, else self.get_thread_by_name(name);
\* a nonexistent thread is logged and the call is over.
JoinThreadLookup(c) ==
    /\ pc[c] = "join_lookup"
    /\ LET thread == IF call[c].isinstance THEN Some(call[c].thread)
                     ELSE get_thread_by_name(call[c].name) IN
       IF thread = None
       THEN /\ ret' = [ret EXCEPT ![c] = Ok(None)]
            /\ Goto(c, "unlock")
            /\ UNCHANGED call
       ELSE /\ call' = [call EXCEPT ![c].thread = thread[1]]
            /\ Goto(c, "join_wait")
            /\ UNCHANGED ret
    /\ UNCHANGED <<threads, thread_names, lock, qthreads, events>>
    /\ ManagerFrame

\* thread.wait() returns when the thread is not running; thread.wait(time)
\* returns then, or when the time is over.
WaitReturns(c) == ~isRunning(call[c].thread) \/ call[c].time # None

\* The wait inside the with-block of join_thread ends.
JoinThreadWait(c) ==
    /\ pc[c] = "join_wait"
    /\ WaitReturns(c)
    /\ ret' = [ret EXCEPT ![c] = Ok(None)]
    /\ Goto(c, "unlock")
    /\ UNCHANGED <<call, threads, thread_names, lock, qthreads, events>>
    /\ ManagerFrame

\* The code of running thread t reaches a call of a manager method that
\* takes the lock: the property thread_names or get_thread_by_name(name).
WorkerCall(t, op, name) ==
    /\ isRunning(t)
    /\ pc[Worker(t)] = "idle"
    /\ call' = [call EXCEPT ![Worker(t)] = [op |-> op, name |-> name]]
    /\ Goto(Worker(t), "with_lock")
    /\ UNCHANGED <<ret, threads, thread_names, lock, qthreads, events>>
    /\ ManagerFrame

\* with self._lock: the thread's code gets the lock once it is free.
WorkerEnter(w) ==
    /\ pc[w] = "with_lock"
    /\ CanAcquire(w)
    /\ lock' = Acquired(w)
    /\ Goto(w, "with_body")
    /\ UNCHANGED <<call, ret, threads, thread_names, qthreads, events>>
    /\ ManagerFrame

\* return self._thread_names.copy(), or the thread registered under name.
WorkerBody(w) ==
    /\ pc[w] = "with_body"
    /\ ret' = [ret EXCEPT ![w] =
                  IF call[w].op = "thread_names" THEN Ok(thread_names)
                  ELSE Ok(get_thread_by_name(call[w].name))]
    /\ Goto(w, "unlock")
    /\ UNCHANGED <<call, threads, thread_names, lock, qthreads, events>>
    /\ ManagerFrame

\* run() of thread t returns; it cannot while its code is inside a call.
WorkerRunReturns(t) ==
    /\ pc[Worker(t)] = "idle"
    /\ RunReturns(t)

JoinClientStep(c) ==
    \/ \E t \in DOMAIN qthreads : RegisterThreadCall(c, t)
    \/ \E name \in ThreadNames, time \in JoinTimes : JoinThreadCall(c, name, 0, time)
    \/ \E t \in DOMAIN qthreads, time \in JoinTimes :
           JoinThreadCall(c, qthreads[t].objectName, t, time)

JoinManagerStep(c) ==
    \/ RegisterThreadCheck(c)
    \/ RegisterThreadAppendThread(c)
    \/ RegisterThreadAppendName(c)
    \/ RegisterThreadUnlock(c)
    \/ JoinThreadLookup(c)
    \/ JoinThreadWait(c)
    \/ WorkerBody(c)
    \/ Unlock(c)

JoinThreadStep ==
    \/ \E name \in ThreadNames : ConstructQThread(name)
    \/ \E t \in DOMAIN qthreads : StartThread(t)
    \/ \E t \in DOMAIN qthreads : WorkerCall(t, "thread_names", "")
    \/ \E t \in DOMAIN qthreads, name \in ThreadNames :
           WorkerCall(t, "get_thread_by_name", name)

NextJoin ==
    \/ \E c \in Clients : JoinClientStep(c)
    \/ \E c \in JoinProcs : JoinManagerStep(c)
    \/ \E t \in 1..MaxThreads : WorkerEnter(Worker(t))
    \/ \E t \in 1..MaxThreads : WorkerRunReturns(t)
    \/ JoinThreadStep

SpecJoin == InitJoin /\ [][NextJoin]_vars

\* A caller inside a with-block goes on until it leaves it, waiting
\* included once the wait can return; the code of a thread that asks for
\* the lock gets it if the lock is free again and again; run() of a
\* started thread returns unless its code is held up inside a call.
SpecJoinFair ==
    /\ SpecJoin
    /\ \A c \in JoinProcs : WF_vars(JoinManagerStep(c))
    /\ \A t \in 1..MaxThreads : SF_vars(WorkerEnter(Worker(t)))
    /\ \A t \in 1..MaxThreads : WF_vars(WorkerRunReturns(t))

\* C29 as stated: waiting never deadlocks: a caller that waits inside
\* join_thread gets out of join_thread in the end, also when the awaited
\* thread calls a manager method that takes the lock before it finishes.
C29_AsStated ==
    \A c \in Clients : (pc[c] = "join_wait") ~> (pc[c] = "idle")

\* ---------------------------------------------------------------------
\* OdmrScannerFiniteSamplingInterfuse.scan_frame
\* ---------------------------------------------------------------------

MaxScanCallers == 2

ScanCallers == 1..MaxScanCallers

\* The frames data_sampler.acquire_frame() may return.
FrameData == {"frame_1", "frame_2"}

\* A call of the hardware works or raises.
HardwareOutcomes == {"ok", "raise"}

ScanFrame == UNCHANGED <<log, optimal_pulses, override_vars, manager_vars>>

InitScan ==
    /\ pc = [c \in ScanCallers |-> "idle"]
    /\ call = [c \in ScanCallers |-> NoCall]
    /\ ret = [c \in ScanCallers |-> NoRet]
    /\ log = <<>>
    /\ optimal_pulses = <<>>
    /\ ParametersUntouched
    /\ ManagerEmpty
    /\ ScannerIdle

\* with self._thread_lock: a caller of scan_frame gets the recursive lock.
ScanFrameCall(c) ==
    /\ pc[c] = "idle"
    /\ thread_lock.holder \in {0, c}
    /\ thread_lock' = [holder |-> c, count |-> thread_lock.count + 1]
    /\ call' = [call EXCEPT ![c] = [op |-> "scan_frame", started |-> FALSE, data |-> None]]
    /\ ret' = [ret EXCEPT ![c] = NoRet]
    /\ Goto(c, "scan_lock")
    /\ UNCHANGED <<module_state, buffered_output>>
    /\ ScanFrame

\* self.module_state.lock(), before the try: a state that is locked already
\* cannot be locked, the call raises and the with-block is left.
ScanFrameLock(c) ==
    /\ pc[c] = "scan_lock"
    /\ IF module_state = "idle"
       THEN /\ module_state' = "locked"
            /\ Goto(c, "scan_start")
            /\ UNCHANGED ret
       ELSE /\ ret' = [ret EXCEPT ![c] = Raise("Exception")]
            /\ Goto(c, "scan_exit")
            /\ UNCHANGED module_state
    /\ UNCHANGED <<call, thread_lock, buffered_output>>
    /\ ScanFrame

\* freq_sampler.start_buffered_output(): the output runs, or the call
\* raises and the finally clause is next.
ScanFrameStart(c, outcome) ==
    /\ pc[c] = "scan_start"
    /\ IF outcome = "ok"
       THEN /\ buffered_output' = "running"
            /\ call' = [call EXCEPT ![c].started = TRUE]
            /\ Goto(c, "scan_acquire")
            /\ UNCHANGED ret
       ELSE /\ ret' = [ret EXCEPT ![c] = Raise("Exception")]
            /\ Goto(c, "scan_finally")
            /\ UNCHANGED <<call, buffered_output>>
    /\ UNCHANGED <<thread_lock, module_state>>
    /\ ScanFrame

\* data = data_sampler.acquire_frame(): a frame, or the call raises and the
\* finally clause is next.
ScanFrameAcquire(c, outcome, data) ==
    /\ pc[c] = "scan_acquire"
    /\ IF outcome = "ok"
       THEN /\ call' = [call EXCEPT ![c].data = Some(data)]
            /\ Goto(c, "scan_stop")
            /\ UNCHANGED ret
       ELSE /\ ret' = [ret EXCEPT ![c] = Raise("Exception")]
            /\ Goto(c, "scan_finally")
            /\ UNCHANGED call
    /\ UNCHANGED <<thread_lock, module_state, buffered_output>>
    /\ ScanFrame

\* freq_sampler.stop_buffered_output() and return data: the output stops
\* and the frame is the result, or the call raises; the finally clause is
\* next either way.
ScanFrameStop(c, outcome) ==
    /\ pc[c] = "scan_stop"
    /\ IF outcome = "ok"
       THEN /\ buffered_output' = "idle"
            /\ ret' = [ret EXCEPT ![c] = Ok(call[c].data[1])]
       ELSE /\ ret' = [ret EXCEPT ![c] = Raise("Exception")]
            /\ UNCHANGED buffered_output
    /\ Goto(c, "scan_finally")
    /\ UNCHANGED <<call, thread_lock, module_state>>
    /\ ScanFrame

\* finally: self.module_state.unlock()
ScanFrameFinally(c) ==
    /\ pc[c] = "scan_finally"
    /\ module_state' = "idle"
    /\ Goto(c, "scan_exit")
    /\ UNCHANGED <<call, ret, thread_lock, buffered_output>>
    /\ ScanFrame

\* The with-block ends: scan_frame returns or raises what ret holds.
ScanFrameExit(c) ==
    /\ pc[c] = "scan_exit"
    /\ thread_lock' = IF thread_lock.count <= 1 THEN Unlocked
                      ELSE [thread_lock EXCEPT !.count = @ - 1]
    /\ Goto(c, "scan_done")
    /\ UNCHANGED <<call, ret, module_state, buffered_output>>
    /\ ScanFrame

\* The caller has the result and goes on.
ScanFrameDone(c) ==
    /\ pc[c] = "scan_done"
    /\ call' = [call EXCEPT ![c] = NoCall]
    /\ ret' = [ret EXCEPT ![c] = NoRet]
    /\ Goto(c, "idle")
    /\ UNCHANGED <<thread_lock, module_state, buffered_output>>
    /\ ScanFrame

NextScan ==
    \E c \in ScanCallers :
        \/ ScanFrameCall(c)
        \/ ScanFrameLock(c)
        \/ \E outcome \in HardwareOutcomes : ScanFrameStart(c, outcome)
        \/ \E outcome \in HardwareOutcomes, data \in FrameData :
               ScanFrameAcquire(c, outcome, data)
        \/ \E outcome \in HardwareOutcomes : ScanFrameStop(c, outcome)
        \/ ScanFrameFinally(c)
        \/ ScanFrameExit(c)
        \/ ScanFrameDone(c)

SpecScan == InitScan /\ [][NextScan]_vars

\* The caller is about to leave the with-block of scan_frame, its result
\* or its exception decided.
ScanLeaves(c) == pc[c] = "scan_exit"

\* C30 as stated: when scan_frame returns or raises after it has started
\* the buffered output, the output is stopped and the module state is
\* unlocked.
C30_AsStated ==
    \A c \in ScanCallers :
        (ScanLeaves(c) /\ call[c].started)
            => (buffered_output = "idle" /\ module_state = "idle")

\* The part of C30 that holds: the module state is unlocked when scan_frame
\* returns or raises after it has locked it, and the output is stopped when
\* scan_frame returns a frame.
C30_Unlocked ==
    \A c \in ScanCallers :
        ScanLeaves(c) =>
            /\ module_state = "idle"
            /\ ret[c].kind = "ok" => buffered_output = "idle"

====
